---- MODULE Spec2Model ----
(***************************************************************************)
(* Meridian backend_py: upload ingestion (ingestion_service.py) and the    *)
(* normalization engine (normalization_service.py).                        *)
(*                                                                         *)
(* Python str values are TLA+ strings, handled character by character      *)
(* with Len, SubSeq, Head, Tail and \o.  Every other Python value is a      *)
(* tagged record, so that None, str, float and bool values can be stored   *)
(* side by side in one dict.                                               *)
(***************************************************************************)
EXTENDS Integers, Sequences, FiniteSets, TLC

(***************************************************************************)
(* Python values                                                           *)
(***************************************************************************)
None == [t |-> "None"]
Str(s) == [t |-> "str", v |-> s]
Bool(b) == [t |-> "bool", v |-> b]
\* a float: kind is "finite", "inf" or "nan"; a finite value is
\* (-1)^neg * num / 10^scale with the trailing zeros of the fraction removed
Float(kind, neg, num, scale) ==
    [t |-> "float", kind |-> kind, neg |-> neg, num |-> num, scale |-> scale]

\* Python truthiness of a value, as used by `not x`, `x and y`, `if x`
Truthy(x) ==
    IF "t" \notin DOMAIN x THEN x # <<>>      \* a dict or a list
    ELSE CASE x.t = "None" -> FALSE
           [] x.t = "str" -> x.v # ""
           [] x.t = "bool" -> x.v
           [] x.t = "float" -> ~(x.kind = "finite" /\ x.num = 0)

(***************************************************************************)
(* str methods, over the ASCII letters, digits and punctuation             *)
(***************************************************************************)
LowerLetters == "abcdefghijklmnopqrstuvwxyz"
UpperLetters == "ABCDEFGHIJKLMNOPQRSTUVWXYZ"
DigitChars == "0123456789"

Char(s, i) == SubSeq(s, i, i)
CharsOf(alphabet) == {Char(alphabet, i) : i \in 1..Len(alphabet)}
IndexOf(c, alphabet) == CHOOSE i \in 1..Len(alphabet) : Char(alphabet, i) = c

LowerSet == CharsOf(LowerLetters)
UpperSet == CharsOf(UpperLetters)
DigitSet == CharsOf(DigitChars)
ToLower == [c \in UpperSet |-> Char(LowerLetters, IndexOf(c, UpperLetters))]
ToUpper == [c \in LowerSet |-> Char(UpperLetters, IndexOf(c, LowerLetters))]
DigitValue == [c \in DigitSet |-> IndexOf(c, DigitChars) - 1]

isalnum(c) == c \in LowerSet \/ c \in UpperSet \/ c \in DigitSet
isdigit(c) == c \in DigitSet
isspace(c) == c \in {" ", "\t", "\n", "\r"}

RECURSIVE AllDigits(_)
AllDigits(s) == s = "" \/ (isdigit(Head(s)) /\ AllDigits(Tail(s)))

lower_char(c) == IF c \in UpperSet THEN ToLower[c] ELSE c
upper_char(c) == IF c \in LowerSet THEN ToUpper[c] ELSE c

RECURSIVE lower(_)
lower(s) == IF s = "" THEN "" ELSE lower_char(Head(s)) \o lower(Tail(s))
RECURSIVE upper(_)
upper(s) == IF s = "" THEN "" ELSE upper_char(Head(s)) \o upper(Tail(s))

RECURSIVE lstrip(_)
lstrip(s) == IF s # "" /\ isspace(Head(s)) THEN lstrip(Tail(s)) ELSE s
RECURSIVE rstrip(_)
rstrip(s) ==
    IF s # "" /\ isspace(Char(s, Len(s))) THEN rstrip(SubSeq(s, 1, Len(s) - 1)) ELSE s
strip(s) == rstrip(lstrip(s))

\* s.replace(old, new) for a one-character old
RECURSIVE replace(_, _, _)
replace(s, old, new) ==
    IF s = "" THEN ""
    ELSE (IF Head(s) = old THEN new ELSE Head(s)) \o replace(Tail(s), old, new)

\* s.split(sep) for a one-character sep: a tuple of the parts, empty ones included
RECURSIVE split(_, _)
split(s, sep) ==
    LET idx == {i \in 1..Len(s) : Char(s, i) = sep} IN
    IF idx = {} THEN <<s>>
    ELSE LET i == CHOOSE j \in idx : \A k \in idx : j <= k IN
         <<SubSeq(s, 1, i - 1)>> \o split(SubSeq(s, i + 1, Len(s)), sep)

\* sep.join(parts)
RECURSIVE join(_, _)
join(sep, parts) ==
    IF parts = <<>> THEN ""
    ELSE IF Len(parts) = 1 THEN parts[1]
    ELSE parts[1] \o sep \o join(sep, Tail(parts))

\* int(s) for a string of ASCII digits
RECURSIVE int(_)
int(s) ==
    IF s = "" THEN 0
    ELSE int(SubSeq(s, 1, Len(s) - 1)) * 10 + DigitValue[Char(s, Len(s))]

\* the decimal digits of n, zero-padded to width w (format spec 0wd)
RECURSIVE zfill(_, _)
zfill(n, w) ==
    IF w = 0 THEN "" ELSE zfill(n \div 10, w - 1) \o Char(DigitChars, (n % 10) + 1)

(***************************************************************************)
(* Scalar coercers                                                         *)
(***************************************************************************)
RECURSIVE SlugChars(_)
SlugChars(s) ==
    IF s = "" THEN ""
    ELSE (IF isalnum(Head(s)) THEN lower_char(Head(s)) ELSE "_") \o SlugChars(Tail(s))

_slugify(value) ==
    LET normalized == SlugChars(value)
        parts == SelectSeq(split(normalized, "_"), LAMBDA part : part # "")
    IN  join("_", parts)

_is_blank(value) == value.t = "None" \/ (value.t = "str" /\ strip(value.v) = "")

_to_text(value) == IF _is_blank(value) THEN None ELSE Str(strip(value.v))

\* float(s): optional sign, then inf / infinity / nan in any case, or decimal
\* digits with at most one point and at least one digit.  Exponents and digit
\* group underscores are not part of the modelled inputs.  None = ValueError.
RECURSIVE StripZeros(_)
StripZeros(frac) ==
    IF frac # "" /\ Char(frac, Len(frac)) = "0"
    THEN StripZeros(SubSeq(frac, 1, Len(frac) - 1)) ELSE frac

float(s) ==
    LET u == strip(s)
        signed == u # "" /\ Head(u) \in {"+", "-"}
        neg == u # "" /\ Head(u) = "-"
        body == IF signed THEN Tail(u) ELSE u
        parts == split(body, ".")
        ip == parts[1]
        fp == IF Len(parts) = 2 THEN StripZeros(parts[2]) ELSE ""
    IN  IF lower(body) \in {"inf", "infinity"} THEN Float("inf", neg, 0, 0)
        ELSE IF lower(body) = "nan" THEN Float("nan", neg, 0, 0)
        ELSE IF /\ Len(parts) <= 2
                /\ AllDigits(ip)
                /\ (Len(parts) = 2 => AllDigits(parts[2]))
                /\ (ip # "" \/ (Len(parts) = 2 /\ parts[2] # ""))
             THEN Float("finite", neg, int(ip \o fp), Len(fp))
        ELSE None

_to_float(value) ==
    LET text == _to_text(value) IN
    IF text = None THEN None ELSE float(replace(text.v, ",", ""))

\* parsed < 0 for a float
FloatNegative(x) ==
    \/ (x.kind = "finite" /\ x.neg /\ x.num > 0)
    \/ (x.kind = "inf" /\ x.neg)

(***************************************************************************)
(* datetime: the library calls _to_datetime and _normalize_row make         *)
(***************************************************************************)
ValueError == [t |-> "ValueError"]
TypeError == [t |-> "TypeError"]
utc == [t |-> "tz", off |-> 0]

\* a datetime; tzinfo is None (naive) or a fixed offset in minutes
datetime(y, mo, d, h, mi, s, tzinfo) ==
    [t |-> "datetime", year |-> y, month |-> mo, day |-> d,
     hour |-> h, minute |-> mi, second |-> s, tzinfo |-> tzinfo]

IsLeap(y) == (y % 4 = 0 /\ y % 100 # 0) \/ y % 400 = 0
DaysInMonth(y, m) ==
    IF m \in {4, 6, 9, 11} THEN 30
    ELSE IF m = 2 THEN (IF IsLeap(y) THEN 29 ELSE 28)
    ELSE 31

\* the range checks of the datetime constructor
ValidDateTime(y, mo, d, h, mi, s) ==
    /\ y \in 1..9999
    /\ mo \in 1..12
    /\ d \in 1..DaysInMonth(y, mo)
    /\ h \in 0..23
    /\ mi \in 0..59
    /\ s \in 0..59

\* HH, HH:MM or HH:MM:SS as <<h, mi, s>>, or <<>> when malformed
ParseClock(s) ==
    LET parts == split(s, ":")
        ok == /\ Len(parts) \in 1..3
              /\ \A i \in 1..Len(parts) : Len(parts[i]) = 2 /\ AllDigits(parts[i])
    IN  IF ok
        THEN << int(parts[1]),
                IF Len(parts) >= 2 THEN int(parts[2]) ELSE 0,
                IF Len(parts) = 3 THEN int(parts[3]) ELSE 0 >>
        ELSE <<>>

\* datetime.fromisoformat(s): YYYY-MM-DD, then optionally any one separator
\* character, a clock HH[:MM[:SS]] and an offset Z or +HH:MM or -HH:MM.
\* Basic (undashed) forms, week dates and fractional seconds are not part of
\* the modelled inputs.
fromisoformat(s) ==
    LET dstr == SubSeq(s, 1, 10)
        dateOk == /\ Len(s) >= 10
                  /\ AllDigits(SubSeq(s, 1, 4)) /\ Char(s, 5) = "-"
                  /\ AllDigits(SubSeq(s, 6, 7)) /\ Char(s, 8) = "-"
                  /\ AllDigits(SubSeq(s, 9, 10))
        y == int(SubSeq(s, 1, 4))
        mo == int(SubSeq(s, 6, 7))
        d == int(SubSeq(s, 9, 10))
        tstr == SubSeq(s, 12, Len(s))
        tzIdx == {i \in 1..Len(tstr) : Char(tstr, i) \in {"+", "-", "Z"}}
        tzPos == IF tzIdx = {} THEN Len(tstr) + 1
                 ELSE CHOOSE i \in tzIdx : \A j \in tzIdx : i <= j
        hms == ParseClock(SubSeq(tstr, 1, tzPos - 1))
        tzstr == SubSeq(tstr, tzPos, Len(tstr))
        offClock == ParseClock(SubSeq(tzstr, 2, Len(tzstr)))
        tzOk == \/ tzstr = ""
                \/ tzstr = "Z"
                \/ /\ Len(tzstr) = 6
                   /\ offClock # <<>>
                   /\ offClock[1] \in 0..23 /\ offClock[2] \in 0..59
        tzinfo == IF tzstr = "" THEN None
                  ELSE IF tzstr = "Z" THEN utc
                  ELSE [t |-> "tz",
                        off |-> (IF Head(tzstr) = "-" THEN -1 ELSE 1)
                                * (offClock[1] * 60 + offClock[2])]
    IN  IF ~dateOk THEN ValueError
        ELSE IF Len(s) = 10
        THEN (IF ValidDateTime(y, mo, d, 0, 0, 0)
              THEN datetime(y, mo, d, 0, 0, 0, None) ELSE ValueError)
        ELSE IF /\ tstr # ""
                /\ hms # <<>>
                /\ tzOk
                /\ ValidDateTime(y, mo, d, hms[1], hms[2], hms[3])
        THEN datetime(y, mo, d, hms[1], hms[2], hms[3], tzinfo)
        ELSE ValueError

\* dt.astimezone(timezone.utc) for an aware dt: the offset is under a day, so
\* the date moves by at most one day
astimezone_utc(dt) ==
    LET m == dt.hour * 60 + dt.minute - dt.tzinfo.off
        back == m < 0
        fwd == m >= 1440
        mm == IF back THEN m + 1440 ELSE IF fwd THEN m - 1440 ELSE m
        firstDay == dt.day = 1
        lastDay == dt.day = DaysInMonth(dt.year, dt.month)
        y == IF back /\ firstDay /\ dt.month = 1 THEN dt.year - 1
             ELSE IF fwd /\ lastDay /\ dt.month = 12 THEN dt.year + 1
             ELSE dt.year
        mo == IF back /\ firstDay THEN (IF dt.month = 1 THEN 12 ELSE dt.month - 1)
              ELSE IF fwd /\ lastDay THEN (IF dt.month = 12 THEN 1 ELSE dt.month + 1)
              ELSE dt.month
        d == IF back THEN (IF firstDay THEN DaysInMonth(y, mo) ELSE dt.day - 1)
             ELSE IF fwd THEN (IF lastDay THEN 1 ELSE dt.day + 1)
             ELSE dt.day
    IN  datetime(y, mo, d, mm \div 60, mm % 60, dt.second, utc)

\* dt.isoformat() of an aware or naive datetime without microseconds
isoformat(dt) ==
    LET off == IF dt.tzinfo = None THEN 0 ELSE dt.tzinfo.off
        mag == IF off < 0 THEN -off ELSE off
    IN  zfill(dt.year, 4) \o "-" \o zfill(dt.month, 2) \o "-" \o zfill(dt.day, 2)
        \o "T" \o zfill(dt.hour, 2) \o ":" \o zfill(dt.minute, 2)
        \o ":" \o zfill(dt.second, 2)
        \o (IF dt.tzinfo = None THEN ""
            ELSE (IF off < 0 THEN "-" ELSE "+")
                 \o zfill(mag \div 60, 2) \o ":" \o zfill(mag % 60, 2))

\* the instant of an aware datetime, for comparison: <<date and time in UTC>>
Instant(dt) ==
    LET u == astimezone_utc(dt) IN
    <<u.year, u.month, u.day, u.hour, u.minute, u.second>>
Naive(dt) == <<dt.year, dt.month, dt.day, dt.hour, dt.minute, dt.second>>

RECURSIVE TupleGreater(_, _)
TupleGreater(a, b) ==
    /\ a # <<>>
    /\ (a[1] > b[1] \/ (a[1] = b[1] /\ TupleGreater(Tail(a), Tail(b))))

\* departure > arrival: TRUE, FALSE, or TypeError when exactly one is naive
datetime_gt(a, b) ==
    IF (a.tzinfo = None) # (b.tzinfo = None) THEN TypeError
    ELSE IF a.tzinfo = None THEN TupleGreater(Naive(a), Naive(b))
    ELSE TupleGreater(Instant(a), Instant(b))

\* whether the one or two characters txt are a value of strptime directive dir
DirectiveOk(dir, txt) ==
    LET n == int(txt) IN
    IF Len(txt) = 2 /\ dir = "d" /\ Char(txt, 1) = " "
    THEN isdigit(Char(txt, 2)) /\ Char(txt, 2) # "0"
    ELSE /\ AllDigits(txt)
         /\ CASE dir = "Y" -> Len(txt) = 4
              [] dir = "m" -> n \in 1..12
              [] dir = "d" -> n \in 1..31
              [] dir = "H" -> n \in 0..23
              [] dir = "M" -> n \in 0..59
              [] dir = "S" -> n \in 0..61
              [] OTHER -> FALSE

\* the regular expression match of strptime: the format is read left to
\* right, a directive prefers its two-character form and backs off to one
\* character, a blank in the format stands for a run of whitespace.  The
\* result carries the fields read and the text left over.
RECURSIVE strptime_match(_, _, _)
strptime_match(text, fmt, f) ==
    IF fmt = "" THEN [ok |-> TRUE, f |-> f, rest |-> text]
    ELSE IF Head(fmt) = "%"
    THEN LET dir == Char(fmt, 2)
             more == SubSeq(fmt, 3, Len(fmt))
             take(k) ==
                 IF Len(text) >= k /\ DirectiveOk(dir, SubSeq(text, 1, k))
                 THEN strptime_match(SubSeq(text, k + 1, Len(text)), more,
                          [f EXCEPT ![dir] = int(lstrip(SubSeq(text, 1, k)))])
                 ELSE [ok |-> FALSE]
         IN  IF dir = "Y" THEN take(4)
             ELSE IF take(2).ok THEN take(2) ELSE take(1)
    ELSE IF Head(fmt) = " "
    THEN (IF text # "" /\ isspace(Head(text))
          THEN strptime_match(lstrip(text), Tail(fmt), f)
          ELSE [ok |-> FALSE])
    ELSE IF text # "" /\ Head(text) = Head(fmt)
    THEN strptime_match(Tail(text), Tail(fmt), f)
    ELSE [ok |-> FALSE]

\* datetime.strptime(text, fmt): a naive datetime or ValueError
strptime(text, fmt) ==
    LET m == strptime_match(text, fmt,
                 [Y |-> 1900, m |-> 1, d |-> 1, H |-> 0, M |-> 0, S |-> 0])
    IN  IF m.ok /\ m.rest = ""
           /\ ValidDateTime(m.f.Y, m.f.m, m.f.d, m.f.H, m.f.M, m.f.S)
        THEN datetime(m.f.Y, m.f.m, m.f.d, m.f.H, m.f.M, m.f.S, None)
        ELSE ValueError

DATETIME_FORMATS ==
    << "%Y-%m-%d",
       "%Y/%m/%d",
       "%Y-%m-%d %H:%M:%S",
       "%Y/%m/%d %H:%M:%S",
       "%m/%d/%Y",
       "%m/%d/%Y %H:%M:%S" >>

RECURSIVE TryFormats(_, _)
TryFormats(text, formats) ==
    IF formats = <<>> THEN None
    ELSE LET parsed == strptime(text, Head(formats)) IN
         IF parsed # ValueError
         THEN Str(isoformat([parsed EXCEPT !.tzinfo = utc]))
         ELSE TryFormats(text, Tail(formats))

_to_datetime(value) ==
    LET text == _to_text(value) IN
    IF text = None THEN None
    ELSE LET normalized == replace(text.v, "Z", "+00:00")
             parsed == fromisoformat(normalized)
         IN  IF parsed # ValueError
             THEN Str(isoformat(astimezone_utc(
                      IF parsed.tzinfo = None THEN [parsed EXCEPT !.tzinfo = utc]
                      ELSE parsed)))
             ELSE TryFormats(text.v, DATETIME_FORMATS)

(***************************************************************************)
(* Tables of normalization_service.py                                      *)
(***************************************************************************)
REQUIRED_FIELDS ==
    << "shipment_id", "order_id", "origin_name", "destination_name",
       "origin_country", "destination_country", "planned_departure_ts",
       "planned_arrival_ts", "mode", "weight_kg", "volume_cbm", "cost_usd",
       "priority" >>

OPTIONAL_FIELDS ==
    << "carrier_name", "incoterm", "commodity", "container_type",
       "hazmat_flag", "temperature_control_flag" >>

CANONICAL_FIELD_ALIASES ==
    [ shipment_id |->
          << "shipment_id", "shipment", "tracking_number", "tracking_id" >>,
      order_id |->
          << "order_id", "order", "purchase_order", "po", "reference" >>,
      origin_name |->
          << "origin_name", "origin", "origin_location", "from_location",
             "source" >>,
      destination_name |->
          << "destination_name", "destination", "destination_location",
             "to_location", "end_location" >>,
      origin_country |->
          << "origin_country", "from_country", "source_country" >>,
      destination_country |->
          << "destination_country", "to_country", "target_country" >>,
      planned_departure_ts |->
          << "planned_departure_ts", "planned_departure", "departure_date",
             "ship_date" >>,
      planned_arrival_ts |->
          << "planned_arrival_ts", "planned_arrival", "arrival_date",
             "delivery_date" >>,
      mode |->
          << "mode", "mode_of_transport", "transport_mode",
             "shipping_method", "carrier_type" >>,
      weight_kg |->
          << "weight_kg", "weight", "mass", "kg" >>,
      volume_cbm |->
          << "volume_cbm", "volume", "cbm", "volume_m3", "cubic_meters" >>,
      cost_usd |->
          << "cost_usd", "cost", "product_cost", "price", "amount", "value",
             "unit_cost" >>,
      priority |->
          << "priority", "priority_level", "service_level" >>,
      carrier_name |->
          << "carrier_name", "carrier", "carrier_id" >>,
      incoterm |->
          << "incoterm", "incoterms" >>,
      commodity |->
          << "commodity", "product_name", "product", "item", "sku",
             "material" >>,
      container_type |->
          << "container_type", "container", "equipment_type" >>,
      hazmat_flag |->
          << "hazmat_flag", "hazmat", "dangerous_goods" >>,
      temperature_control_flag |->
          << "temperature_control_flag", "temperature_control", "cold_chain",
             "reefer" >> ]

MODE_ALIASES ==
    [ road |-> "road", truck |-> "road", rail |-> "rail", train |-> "rail",
      sea |-> "sea", ocean |-> "sea", maritime |-> "sea", air |-> "air",
      flight |-> "air", multimodal |-> "multimodal",
      intermodal |-> "multimodal" ]

PRIORITY_ALIASES ==
    [ critical |-> "critical", urgent |-> "critical", high |-> "high",
      medium |-> "medium", med |-> "medium", normal |-> "medium",
      low |-> "low", p1 |-> "critical", p2 |-> "high", p3 |-> "medium",
      p4 |-> "low" ]

BOOL_ALIASES ==
    ("true" :> TRUE) @@
    ("1" :> TRUE) @@
    ("yes" :> TRUE) @@
    ("y" :> TRUE) @@
    ("false" :> FALSE) @@
    ("0" :> FALSE) @@
    ("no" :> FALSE) @@
    ("n" :> FALSE)

_to_mode(value) ==
    LET text == _to_text(value) IN
    IF text = None THEN None
    ELSE LET key == lower(text.v) IN
         IF key \in DOMAIN MODE_ALIASES THEN Str(MODE_ALIASES[key]) ELSE None

_to_priority(value) ==
    LET text == _to_text(value) IN
    IF text = None THEN None
    ELSE LET key == lower(text.v) IN
         IF key \in DOMAIN PRIORITY_ALIASES THEN Str(PRIORITY_ALIASES[key]) ELSE None

_to_bool(value) ==
    LET text == _to_text(value) IN
    IF text = None THEN None
    ELSE LET key == lower(text.v) IN
         IF key \in DOMAIN BOOL_ALIASES THEN Bool(BOOL_ALIASES[key]) ELSE None

(***************************************************************************)
(* Alias resolver.  A row is the dict csv.DictReader yields: a sequence of *)
(* <<key, value>> items in insertion order with distinct keys; a key is a  *)
(* str, or None for the surplus cells of a row longer than the header.     *)
(***************************************************************************)
Range(seq) == {seq[i] : i \in 1..Len(seq)}

RECURSIVE FoldSeq(_, _, _)
FoldSeq(Op(_, _), acc, seq) ==
    IF seq = <<>> THEN acc ELSE FoldSeq(Op, Op(acc, Head(seq)), Tail(seq))

\* the dict _row_lookup builds, as a function from slug to value: a later
\* item overwrites an earlier one with the same slug
_row_lookup(row) ==
    LET named == {i \in 1..Len(row) : row[i][1] # None}
        slug == [i \in named |-> _slugify(row[i][1].v)]
        last(k) == CHOOSE i \in named :
                       slug[i] = k /\ \A j \in named : slug[j] = k => j <= i
    IN  [k \in {slug[i] : i \in named} |-> row[last(k)][2]]

\* row_lookup.get(key)
LookupGet(row_lookup, key) ==
    IF key \in DOMAIN row_lookup THEN row_lookup[key] ELSE None

\* _slugify(alias) of every candidate name _lookup_field can try, evaluated once
CandidateSlug ==
    LET names == UNION {Range(CANONICAL_FIELD_ALIASES[f]) \cup {f} :
                           f \in DOMAIN CANONICAL_FIELD_ALIASES}
    IN  [alias \in names |-> _slugify(alias)]

\* lines 198-201 with the first candidate that is a column taken, blank or not
RECURSIVE FirstNonBlank_present(_, _)
FirstNonBlank_present(row_lookup, candidates) ==
    IF candidates = <<>> THEN None
    ELSE IF CandidateSlug[Head(candidates)] \in DOMAIN row_lookup
    THEN row_lookup[CandidateSlug[Head(candidates)]]
    ELSE FirstNonBlank_present(row_lookup, Tail(candidates))

\* lines 198-201: the candidates in order
RECURSIVE FirstNonBlank(_, _)
FirstNonBlank(row_lookup, candidates) ==
    IF candidates = <<>> THEN None
    ELSE LET value == LookupGet(row_lookup, CandidateSlug[Head(candidates)]) IN
         IF ~_is_blank(value) THEN value
         ELSE FirstNonBlank(row_lookup, Tail(candidates))

_lookup_field(row_lookup, canonical_field) ==
    LET aliases == IF canonical_field \in DOMAIN CANONICAL_FIELD_ALIASES
                   THEN CANONICAL_FIELD_ALIASES[canonical_field] ELSE <<>>
    IN  FirstNonBlank(row_lookup, <<canonical_field>> \o aliases)

(***************************************************************************)
(* Row normalizer                                                          *)
(***************************************************************************)
\* the message text is fixed by field and code and is left out
_error(row_number, field, code, value) ==
    [row_number |-> row_number, field |-> field, code |-> code, value |-> value]

_warning(row_number, field, code, value) ==
    [row_number |-> row_number, field |-> field, code |-> code, value |-> value]

ALL_FIELDS == REQUIRED_FIELDS \o OPTIONAL_FIELDS

\* lines 231-237: every canonical field as text, the countries upper-cased
ResolveFields(lookup) ==
    [field \in Range(ALL_FIELDS) |->
        LET raw_value == _lookup_field(lookup, field) IN
        IF field \in {"origin_country", "destination_country"}
        THEN LET value == _to_text(raw_value) IN
             IF Truthy(value) THEN Str(upper(value.v)) ELSE None
        ELSE _to_text(raw_value)]

\* The stages below pass on the locals of _normalize_row:
\* [normalized, errors, warnings, row_number, raised]; raised is None until
\* a statement raises, and a raised exception ends the call.

\* lines 239-250 with the id derived from the order id as it is written
DeriveShipmentId_unslugged(st) ==
    IF ~Truthy(st.normalized["shipment_id"]) /\ Truthy(st.normalized["order_id"])
    THEN LET derived_id == "derived_" \o st.normalized["order_id"].v IN
         [st EXCEPT !.normalized["shipment_id"] = Str(derived_id),
                    !.warnings = Append(@, _warning(st.row_number, "shipment_id",
                                            "derived_shipment_id", Str(derived_id)))]
    ELSE st

\* lines 239-250
DeriveShipmentId(st) ==
    IF ~Truthy(st.normalized["shipment_id"]) /\ Truthy(st.normalized["order_id"])
    THEN LET derived_id == "derived_" \o _slugify(st.normalized["order_id"].v) IN
         [st EXCEPT !.normalized["shipment_id"] = Str(derived_id),
                    !.warnings = Append(@, _warning(st.row_number, "shipment_id",
                                            "derived_shipment_id", Str(derived_id)))]
    ELSE st

\* lines 252-276, one iteration, without the continue of line 264: what the
\* text parsed to is stored also when it did not parse
NumericField_cleared(st, numeric_field) ==
    LET parsed == _to_float(st.normalized[numeric_field])
        stored == [st EXCEPT !.normalized[numeric_field] = parsed]
    IN  IF parsed = None /\ st.normalized[numeric_field] # None
        THEN [stored EXCEPT !.errors = Append(@, _error(st.row_number, numeric_field,
                                      "invalid_number", st.normalized[numeric_field]))]
        ELSE IF parsed # None /\ FloatNegative(parsed)
             THEN [stored EXCEPT !.errors = Append(@, _error(st.row_number,
                                      numeric_field, "negative_value", parsed))]
             ELSE stored

\* lines 252-276, one iteration
NumericField(st, numeric_field) ==
    LET parsed == _to_float(st.normalized[numeric_field]) IN
    IF parsed = None /\ st.normalized[numeric_field] # None
    THEN [st EXCEPT !.errors = Append(@, _error(st.row_number, numeric_field,
                                  "invalid_number", st.normalized[numeric_field]))]
    ELSE LET stored == [st EXCEPT !.normalized[numeric_field] = parsed] IN
         IF parsed # None /\ FloatNegative(parsed)
         THEN [stored EXCEPT !.errors = Append(@, _error(st.row_number,
                                  numeric_field, "negative_value", parsed))]
         ELSE stored

\* lines 278-291, one iteration
DatetimeField(st, datetime_field) ==
    LET parsed == _to_datetime(st.normalized[datetime_field]) IN
    IF parsed = None /\ st.normalized[datetime_field] # None
    THEN [st EXCEPT !.errors = Append(@, _error(st.row_number, datetime_field,
                                  "invalid_datetime", st.normalized[datetime_field]))]
    ELSE [st EXCEPT !.normalized[datetime_field] = parsed]

\* lines 293-304
TimeOrder(st) ==
    IF Truthy(st.normalized["planned_departure_ts"])
       /\ Truthy(st.normalized["planned_arrival_ts"])
    THEN LET departure == fromisoformat(st.normalized["planned_departure_ts"].v)
             arrival == fromisoformat(st.normalized["planned_arrival_ts"].v)
         IN  IF departure = ValueError \/ arrival = ValueError
             THEN [st EXCEPT !.raised = ValueError]
             ELSE IF (departure.tzinfo = None) # (arrival.tzinfo = None)
             THEN [st EXCEPT !.raised = TypeError]
             ELSE IF datetime_gt(departure, arrival)
             THEN [st EXCEPT !.errors = Append(@, _error(st.row_number,
                                  "planned_arrival_ts", "invalid_time_order", None))]
             ELSE st
    ELSE st

\* lines 306-317
ModeField(st) ==
    LET mode == _to_mode(st.normalized["mode"])
        checked ==
            IF mode = None /\ st.normalized["mode"] # None
            THEN [st EXCEPT !.errors = Append(@, _error(st.row_number, "mode",
                                  "invalid_mode", st.normalized["mode"]))]
            ELSE st
    IN  [checked EXCEPT !.normalized["mode"] = mode]

\* lines 319-330
PriorityField(st) ==
    LET priority == _to_priority(st.normalized["priority"])
        checked ==
            IF priority = None /\ st.normalized["priority"] # None
            THEN [st EXCEPT !.errors = Append(@, _error(st.row_number, "priority",
                                  "invalid_priority", st.normalized["priority"]))]
            ELSE st
    IN  [checked EXCEPT !.normalized["priority"] = priority]

\* lines 332-344 with the unparseable flag recorded as an error
BoolField_error(st, bool_field) ==
    LET parsed == _to_bool(st.normalized[bool_field])
        checked ==
            IF parsed = None /\ st.normalized[bool_field] # None
            THEN [st EXCEPT !.errors = Append(@, _error(st.row_number,
                                  bool_field, "invalid_bool", st.normalized[bool_field]))]
            ELSE st
    IN  [checked EXCEPT !.normalized[bool_field] = parsed]

\* lines 332-344, one iteration
BoolField(st, bool_field) ==
    LET parsed == _to_bool(st.normalized[bool_field])
        checked ==
            IF parsed = None /\ st.normalized[bool_field] # None
            THEN [st EXCEPT !.warnings = Append(@, _warning(st.row_number,
                                  bool_field, "invalid_bool", st.normalized[bool_field]))]
            ELSE st
    IN  [checked EXCEPT !.normalized[bool_field] = parsed]

\* lines 346-355 with a field passed over when it has an error already
RequiredField_once(st, field) ==
    IF st.normalized[field] = None
       /\ \A i \in 1..Len(st.errors) : st.errors[i].field # field
    THEN [st EXCEPT !.errors = Append(@, _error(st.row_number, field,
                                  "missing_required", None))]
    ELSE st

\* lines 346-355, one iteration
RequiredField(st, field) ==
    IF st.normalized[field] = None
    THEN [st EXCEPT !.errors = Append(@, _error(st.row_number, field,
                                  "missing_required", None))]
    ELSE st

\* lines 357-360 without the test on errors: the row is handed back as it stands
RowOutcome_partial(st) ==
    [raised |-> st.raised, normalized |-> st.normalized,
     errors |-> st.errors, warnings |-> st.warnings]

\* lines 357-360: no row when there are errors.  When a statement raised, the
\* call returns nothing: errors and warnings are its locals as it ended.
RowOutcome(st) ==
    IF st.raised # None \/ st.errors # <<>>
    THEN [raised |-> st.raised, normalized |-> None,
          errors |-> st.errors, warnings |-> st.warnings]
    ELSE [raised |-> None, normalized |-> st.normalized,
          errors |-> <<>>, warnings |-> st.warnings]

\* the statements of lines 239-355 in their order, each with the field it is for
Statements ==
    << <<"derive", "shipment_id">>,
       <<"numeric", "weight_kg">>, <<"numeric", "volume_cbm">>, <<"numeric", "cost_usd">>,
       <<"datetime", "planned_departure_ts">>, <<"datetime", "planned_arrival_ts">>,
       <<"time_order", "planned_arrival_ts">>,
       <<"mode", "mode">>,
       <<"priority", "priority">>,
       <<"bool", "hazmat_flag">>, <<"bool", "temperature_control_flag">> >>
    \o [i \in 1..Len(REQUIRED_FIELDS) |-> <<"required", REQUIRED_FIELDS[i]>>]

\* one statement on the locals
Execute(st, statement) ==
    CASE statement[1] = "derive" -> DeriveShipmentId(st)
      [] statement[1] = "numeric" -> NumericField(st, statement[2])
      [] statement[1] = "datetime" -> DatetimeField(st, statement[2])
      [] statement[1] = "time_order" -> TimeOrder(st)
      [] statement[1] = "mode" -> ModeField(st)
      [] statement[1] = "priority" -> PriorityField(st)
      [] statement[1] = "bool" -> BoolField(st, statement[2])
      [] statement[1] = "required" -> RequiredField(st, statement[2])

\* the statements one after the other; nothing runs after one has raised
RECURSIVE RunStatements(_, _)
RunStatements(st, rest) ==
    IF rest = <<>> \/ st.raised # None THEN st
    ELSE RunStatements(Execute(st, Head(rest)), Tail(rest))

\* lines 226-237: the locals after the resolution of the fields
ResolvedLocals(row, row_number) ==
    [normalized |-> ResolveFields(_row_lookup(row)), errors |-> <<>>,
     warnings |-> <<>>, row_number |-> row_number, raised |-> None]

\* _normalize_row(row, row_number): [raised, normalized, errors, warnings].
\* raised # None means the call ended in that exception and returned nothing;
\* otherwise normalized is the row or None.
_normalize_row(row, row_number) ==
    RowOutcome(RunStatements(ResolvedLocals(row, row_number), Statements))

(***************************************************************************)
(* State                                                                   *)
(***************************************************************************)
VARIABLES
    disk,       \* the file system: path -> content (the manifest, the stored
                \* uploads and the three artifacts of every normalized upload)
    lock,       \* _MANIFEST_LOCK: the thread holding it, or 0
    pc,         \* per thread: where its current call stands
    local,      \* per thread: the local variables of its current call
    responses,  \* the responses given so far, each with its call
    started,    \* the number of calls started so far
    clock,      \* datetime.now(): advances at every reading
    next_id,    \* the uuid4 values handed out so far
    normalization_max_errors,   \* settings.normalization_max_errors
    given,      \* the row handed to _normalize_row on its own
    outcome     \* what that call gave

vars == <<disk, lock, pc, local, responses, started, clock, next_id,
          normalization_max_errors, given, outcome>>

Threads == {1, 2}

\* bounds of the model
MaxRequests == 3
MaxRows == 3
MaxErrorsArg == 3
MaxCeiling == 2
MaxEdits == 2
MaxColumns == 3
MaxSampleRows == 7

(***************************************************************************)
(* Settings (core/config.py; the values the tests configure for the        *)
(* directories of the normalization artifacts)                             *)
(***************************************************************************)
upload_storage_dir == "uploads"
upload_manifest_path == "ingestion_manifest.json"
upload_max_bytes == 25 * 1024 * 1024
upload_allowed_extensions == ".csv,.xlsx,.xls"
silver_storage_dir == "silver"
quarantine_storage_dir == "quarantine"
normalization_report_dir == "reports"

Max(a, b) == IF a >= b THEN a ELSE b
Min(a, b) == IF a <= b THEN a ELSE b

\* Path(dir) / name
PathJoin(dir, name) == dir \o "/" \o name

\* Path(filename).suffix of a bare file name
suffix(filename) ==
    LET dots == {i \in 1..Len(filename) : Char(filename, i) = "."} IN
    IF dots = {} THEN ""
    ELSE LET i == CHOOSE j \in dots : \A k \in dots : k <= j IN
         IF i > 1 /\ i < Len(filename) THEN SubSeq(filename, i, Len(filename)) ELSE ""

\* dict access
Has(d, key) == key \in DOMAIN d
Get(d, key) == IF key \in DOMAIN d THEN d[key] ELSE None
Put(d, key, value) == (key :> value) @@ d

(***************************************************************************)
(* ingestion_service.py                                                    *)
(***************************************************************************)
_allowed_extensions ==
    LET parts == split(upload_allowed_extensions, ",") IN
    {lower(strip(parts[i])) : i \in 1..Len(parts)} \ {""}

_read_manifest(d) ==
    IF upload_manifest_path \in DOMAIN d THEN d[upload_manifest_path]
    ELSE [uploads |-> <<>>]

_write_manifest(d, payload) == Put(d, upload_manifest_path, payload)

_now_iso(now) == now

\* uuid4().hex[:12] of the n-th value handed out
uuid4(n) == zfill(n, 12)

_create_upload_record(file_hash, original_filename, stored_filename, stored_path,
                      size_bytes, id, now) ==
    [upload_id |-> "upl_" \o uuid4(id),
     file_hash |-> file_hash,
     original_filename |-> original_filename,
     stored_filename |-> stored_filename,
     stored_path |-> stored_path,
     size_bytes |-> size_bytes,
     created_at |-> _now_iso(now)]

\* next((x for x in seq if Test(x)), None)
FirstWhere(seq, Test(_)) ==
    LET hits == {i \in 1..Len(seq) : Test(seq[i])} IN
    IF hits = {} THEN None
    ELSE seq[CHOOSE i \in hits : \A j \in hits : i <= j]

\* hashlib.sha256(content).hexdigest(): distinct contents have distinct digests
sha256(content) == content.digest

IngestionResult(record, cached) ==
    [upload_id |-> record.upload_id,
     file_hash |-> record.file_hash,
     original_filename |-> record.original_filename,
     stored_filename |-> record.stored_filename,
     stored_path |-> record.stored_path,
     size_bytes |-> record.size_bytes,
     created_at |-> record.created_at,
     cached |-> cached]

\* a with-block that does not wait for the lock
LockFree_no_wait(t) == t \in Threads

\* a with-block on _MANIFEST_LOCK can be entered by thread t
LockFree(t) == lock = 0

\* a call is handed to the first free thread of the server
CanStart(t) ==
    /\ pc[t] = "idle"
    /\ \A u \in Threads : u < t => pc[u] # "idle"
    /\ started < MaxRequests

\* the body of an error response
Failure(detail) == [detail |-> detail]

\* the call of thread t ends with this response
Respond(t, op, args, status_code, data) ==
    /\ responses' = responses \cup {[op |-> op, args |-> args,
                                     status_code |-> status_code, data |-> data]}
    /\ pc' = [pc EXCEPT ![t] = "idle"]
    /\ local' = [local EXCEPT ![t] = <<>>]

(***************************************************************************)
(* Inputs: file names and file contents.  A content is what the client     *)
(* sends: its digest, its length and what the csv module reads from it     *)
(* (the header row and the records after it).                              *)
(***************************************************************************)
\* the header and the two data rows of tests/test_ingest.py, with one more
\* column for an optional flag
TestHeader ==
    << "shipment_id", "order_id", "origin", "destination", "origin_country",
       "destination_country", "planned_departure", "planned_arrival", "mode",
       "weight", "volume", "cost", "priority", "hazmat" >>

ValidCells ==
    << "SHP-001", "ORD-001", "Shanghai", "Los Angeles", "CN", "US",
       "2026-02-20", "2026-03-01", "sea", "1200", "30", "15000", "high", "no" >>

\* blank destination, arrival before departure, negative cost
InvalidCells ==
    << "SHP-002", "ORD-002", "Singapore", "", "SG", "US",
       "2026-02-20", "2026-02-19", "ocean", "500", "20", "-10", "critical", "" >>

\* no shipment_id, a malformed flag: accepted with two warnings
WarnCells ==
    << "", "X Y", "Shanghai", "Los Angeles", "cn", "us",
       "2026/02/20", "02/20/2026", "Truck", "1,200", "30", "0", "P1", "maybe" >>

\* only origin and destination
SparseCells ==
    << "", "", "Shanghai", "LA", "", "", "", "", "", "", "", "", "", "" >>

\* an unparseable departure beside a good arrival
GarbageDateCells ==
    << "SHP-005", "ORD-005", "Shanghai", "Los Angeles", "CN", "US",
       "garbage", "2026-03-01", "sea", "1200", "30", "15000", "high", "no" >>

\* one error only: a weight that is no number
BadWeightCells ==
    << "SHP-006", "ORD-006", "Shanghai", "Los Angeles", "CN", "US",
       "2026-02-20", "2026-03-01", "sea", "heavy", "30", "15000", "high", "no" >>

SampleRows ==
    <<ValidCells, InvalidCells, WarnCells, SparseCells, GarbageDateCells, BadWeightCells>>

\* the rows of a file, by their indices in SampleRows
RECURSIVE DigitsOf(_)
DigitsOf(ixs) ==
    IF ixs = <<>> THEN "" ELSE Char(DigitChars, Head(ixs) + 1) \o DigitsOf(Tail(ixs))

CsvContent(ixs) ==
    [digest |-> "sha" \o DigitsOf(ixs),
     size |-> 100 * (Len(ixs) + 1),
     csv |-> [fieldnames |-> TestHeader,
              records |-> [i \in 1..Len(ixs) |-> SampleRows[ixs[i]]]]]

\* a file of one blank line: the csv module finds no header in it
BlankLineContent ==
    [digest |-> "sha_blank", size |-> 1, csv |-> [fieldnames |-> <<>>, records |-> <<>>]]
\* bytes that are no table; read as CSV they are one header cell and no record
FakeXlsxContent ==
    [digest |-> "sha_xlsx", size |-> 9,
     csv |-> [fieldnames |-> <<"fake-xlsx">>, records |-> <<>>]]
EmptyContent ==
    [digest |-> "sha_empty", size |-> 0, csv |-> [fieldnames |-> <<>>, records |-> <<>>]]
HugeContent ==
    [digest |-> "sha_huge", size |-> upload_max_bytes + 1,
     csv |-> [fieldnames |-> TestHeader, records |-> <<>>]]

\* sequences over 1..n of length at most len
RECURSIVE SeqsUpTo(_, _)
SeqsUpTo(n, len) ==
    IF len = 0 THEN {<<>>}
    ELSE LET shorter == SeqsUpTo(n, len - 1) IN
         shorter \cup {Append(q, i) : q \in shorter, i \in 1..n}

(***************************************************************************)
(* csv.DictReader                                                          *)
(***************************************************************************)
\* dict item assignment d[key] = value on a dict kept as a sequence of items
DictSet(d, key, value) ==
    IF \E i \in 1..Len(d) : d[i][1] = key
    THEN [i \in 1..Len(d) |-> IF d[i][1] = key THEN <<key, value>> ELSE d[i]]
    ELSE Append(d, <<key, value>>)

\* the dict DictReader.__next__ builds of a record: dict(zip(fieldnames, cells)),
\* then the surplus cells under the key None, or None for each missing cell
DictReaderRow(fieldnames, cells) ==
    LET n == Min(Len(fieldnames), Len(cells))
        zipped == [i \in 1..n |-> <<Str(fieldnames[i]), Str(cells[i])>>]
        SetItem(d, item) == DictSet(d, item[1], item[2])
        d0 == FoldSeq(SetItem, <<>>, zipped)
        SetMissing(d, key) == DictSet(d, Str(key), None)
    IN  IF Len(cells) > Len(fieldnames)
        THEN Append(d0, <<None, [t |-> "list",
                                 v |-> SubSeq(cells, Len(fieldnames) + 1, Len(cells))]>>)
        ELSE FoldSeq(SetMissing, d0, SubSeq(fieldnames, Len(cells) + 1, Len(fieldnames)))

\* the records DictReader yields: the blank lines are skipped
DataRecords(csv) == SelectSeq(csv.records, LAMBDA cells : cells # <<>>)

(***************************************************************************)
(* Batch normalizer: the loop of normalize_upload (lines 407-443) over its *)
(* locals [valid_rows, invalid_rows, all_errors, all_warnings,             *)
(* error_limit_reached, effective_error_limit, raised]                     *)
(***************************************************************************)
\* line 411
EffectiveErrorLimit(max_errors, ceiling) == Max(1, Min(max_errors, ceiling))

\* lines 407-412
LoopLocals(max_errors, ceiling) ==
    [valid_rows |-> <<>>, invalid_rows |-> <<>>,
     all_errors |-> <<>>, all_warnings |-> <<>>,
     effective_error_limit |-> EffectiveErrorLimit(max_errors, ceiling),
     error_limit_reached |-> FALSE,
     raised |-> None]

\* lines 436-440 with the limit tested one entry late
CollectError_one_over(loc, error_item) ==
    IF Len(loc.all_errors) <= loc.effective_error_limit
    THEN [loc EXCEPT !.all_errors = Append(@, error_item)]
    ELSE [loc EXCEPT !.error_limit_reached = TRUE]

\* lines 436-440, one iteration
CollectError(loc, error_item) ==
    IF Len(loc.all_errors) < loc.effective_error_limit
    THEN [loc EXCEPT !.all_errors = Append(@, error_item)]
    ELSE [loc EXCEPT !.error_limit_reached = TRUE]

\* lines 442-443 with the errors collected so far taken off the room for warnings
CollectWarnings_shared_room(loc, row_warnings) ==
    IF Len(loc.all_warnings) + Len(loc.all_errors) < loc.effective_error_limit
    THEN LET room == Max(0, loc.effective_error_limit - Len(loc.all_warnings)
                              - Len(loc.all_errors)) IN
         [loc EXCEPT !.all_warnings =
                         @ \o SubSeq(row_warnings, 1, Min(room, Len(row_warnings)))]
    ELSE loc

\* lines 442-443 with the flag of the errors set when a warning finds no room
CollectWarnings_flagging(loc, row_warnings) ==
    LET room == Max(0, loc.effective_error_limit - Len(loc.all_warnings))
        kept == [loc EXCEPT !.all_warnings =
                                @ \o SubSeq(row_warnings, 1, Min(room, Len(row_warnings)))]
    IN  IF Len(row_warnings) > room
        THEN [kept EXCEPT !.error_limit_reached = TRUE]
        ELSE kept

\* lines 442-443
CollectWarnings(loc, row_warnings) ==
    IF Len(loc.all_warnings) < loc.effective_error_limit
    THEN LET room == Max(0, loc.effective_error_limit - Len(loc.all_warnings)) IN
         [loc EXCEPT !.all_warnings =
                         @ \o SubSeq(row_warnings, 1, Min(room, Len(row_warnings)))]
    ELSE loc

\* _normalize_row of the sample records at the row numbers a file can give
\* them, evaluated once and kept as a table
SampleCalls ==
    {<<DictReaderRow(TestHeader, SampleRows[i]), n>> :
        i \in 1..Len(SampleRows), n \in 2..(Max(MaxRows, MaxSampleRows) + 1)}

SampleOutcome == {<<call, _normalize_row(call[1], call[2])>> : call \in SampleCalls}

NormalizeRowCall(r, row_number) ==
    IF <<r, row_number>> \in SampleCalls
    THEN (CHOOSE entry \in SampleOutcome : entry[1] = <<r, row_number>>)[2]
    ELSE _normalize_row(r, row_number)

\* lines 424-443 with a row quarantined only while the report has room for errors
Collect_room_only(loc, r, row_number, res) ==
    LET kept == IF res.normalized # None
                THEN [loc EXCEPT !.valid_rows = Append(@, res.normalized)]
                ELSE loc
        quarantined ==
            IF res.errors # <<>> /\ Len(loc.all_errors) < loc.effective_error_limit
            THEN [kept EXCEPT !.invalid_rows =
                      Append(@, [row_number |-> row_number, raw |-> r,
                                 errors |-> res.errors])]
            ELSE kept
    IN  IF res.raised # None THEN [loc EXCEPT !.raised = res.raised]
        ELSE CollectWarnings(FoldSeq(CollectError, quarantined, res.errors),
                             res.warnings)

\* lines 424-443: what the loop does with the result res of _normalize_row,
\* or with its exception
Collect(loc, r, row_number, res) ==
    LET kept == IF res.normalized # None
                THEN [loc EXCEPT !.valid_rows = Append(@, res.normalized)]
                ELSE loc
        quarantined ==
            IF res.errors # <<>>
            THEN [kept EXCEPT !.invalid_rows =
                      Append(@, [row_number |-> row_number, raw |-> r,
                                 errors |-> res.errors])]
            ELSE kept
    IN  IF res.raised # None THEN [loc EXCEPT !.raised = res.raised]
        ELSE CollectWarnings(FoldSeq(CollectError, quarantined, res.errors),
                             res.warnings)

\* lines 423-443: the body of the loop for one row
LoopBody(loc, r, row_number) ==
    Collect(loc, r, row_number, NormalizeRowCall(r, row_number))

\* the whole loop over the records still to read, from row_number on; an
\* exception leaves it at once
RECURSIVE RunLoop(_, _, _, _)
RunLoop(loc, fieldnames, records, row_number) ==
    IF records = <<>> \/ loc.raised # None THEN loc
    ELSE RunLoop(LoopBody(loc, DictReaderRow(fieldnames, Head(records)), row_number),
                 fieldnames, Tail(records), row_number + 1)

ArtifactPath(dir, upload_id) == PathJoin(dir, upload_id \o ".json")

\* lines 474-498 with every valid row put in the sample
BuildReport_whole_sample(upload_id, processed_at, upload, loc, silver_path, quarantine_path) ==
    [upload_id |-> upload_id,
     processed_at |-> processed_at,
     source |-> [original_filename |-> upload.original_filename,
                 stored_filename |-> upload.stored_filename,
                 stored_path |-> upload.stored_path,
                 file_hash |-> upload.file_hash],
     totals |-> [rows_total |-> Len(loc.valid_rows) + Len(loc.invalid_rows),
                 rows_valid |-> Len(loc.valid_rows),
                 rows_invalid |-> Len(loc.invalid_rows),
                 error_count |-> Len(loc.all_errors),
                 warning_count |-> Len(loc.all_warnings),
                 error_limit_reached |-> loc.error_limit_reached],
     sample_normalized_rows |-> loc.valid_rows,
     errors |-> loc.all_errors,
     warnings |-> loc.all_warnings,
     artifacts |-> [silver_path |-> silver_path,
                    quarantine_path |-> quarantine_path]]

\* lines 474-498
BuildReport(upload_id, processed_at, upload, loc, silver_path, quarantine_path) ==
    [upload_id |-> upload_id,
     processed_at |-> processed_at,
     source |-> [original_filename |-> upload.original_filename,
                 stored_filename |-> upload.stored_filename,
                 stored_path |-> upload.stored_path,
                 file_hash |-> upload.file_hash],
     totals |-> [rows_total |-> Len(loc.valid_rows) + Len(loc.invalid_rows),
                 rows_valid |-> Len(loc.valid_rows),
                 rows_invalid |-> Len(loc.invalid_rows),
                 error_count |-> Len(loc.all_errors),
                 warning_count |-> Len(loc.all_warnings),
                 error_limit_reached |-> loc.error_limit_reached],
     sample_normalized_rows |-> SubSeq(loc.valid_rows, 1, Min(5, Len(loc.valid_rows))),
     errors |-> loc.all_errors,
     warnings |-> loc.all_warnings,
     artifacts |-> [silver_path |-> silver_path,
                    quarantine_path |-> quarantine_path]]

\* lines 504-513
BuildSummary(processed_at, loc, report_path, silver_path, quarantine_path) ==
    [status |-> "completed",
     processed_at |-> processed_at,
     rows_total |-> Len(loc.valid_rows) + Len(loc.invalid_rows),
     rows_valid |-> Len(loc.valid_rows),
     rows_invalid |-> Len(loc.invalid_rows),
     report_path |-> report_path,
     silver_path |-> silver_path,
     quarantine_path |-> quarantine_path]

\* lines 378-386 with the summarized record added beside the old one
AttachSummary_appended(uploads, upload_id, summary) ==
    LET hits == {i \in 1..Len(uploads) : uploads[i].upload_id = upload_id}
        target == CHOOSE i \in hits : \A j \in hits : i <= j
    IN  Append(uploads,
               [k \in DOMAIN uploads[target] \cup {"normalization"} |->
                   IF k = "normalization" THEN summary ELSE uploads[target][k]])

\* lines 378-386: the uploads list with the summary set on the first record
\* of that upload_id (target["normalization"] = summary)
AttachSummary(uploads, upload_id, summary) ==
    LET hits == {i \in 1..Len(uploads) : uploads[i].upload_id = upload_id}
        target == CHOOSE i \in hits : \A j \in hits : i <= j
    IN  [i \in 1..Len(uploads) |->
            IF i = target
            THEN [k \in DOMAIN uploads[i] \cup {"normalization"} |->
                     IF k = "normalization" THEN summary ELSE uploads[i][k]]
            ELSE uploads[i]]

(***************************************************************************)
(* ingest_upload (ingestion_service.py lines 91-165)                       *)
(***************************************************************************)
\* lines 92-100: the extension gate, before the body is read
IngestStart(t, filename, content) ==
    /\ CanStart(t)
    /\ LET extension == lower(suffix(filename)) IN
       IF extension \notin _allowed_extensions
       THEN Respond(t, "ingest", [filename |-> filename, digest |-> content.digest],
                    400, Failure("unsupported_extension"))
       ELSE /\ pc' = [pc EXCEPT ![t] = "ingest_read"]
            /\ local' = [local EXCEPT ![t] =
                   [filename |-> filename, extension |-> extension,
                    upload_file |-> content]]
            /\ responses' = responses
    /\ started' = started + 1
    /\ UNCHANGED <<disk, lock, clock, next_id, normalization_max_errors, given, outcome>>

\* lines 102-119 with the body written to the storage directory as soon as it
\* is read, ahead of the size gates
IngestRead_store_first(t) ==
    /\ pc[t] = "ingest_read"
    /\ LET content == local[t].upload_file
           size_bytes == content.size
           args == [filename |-> local[t].filename, digest |-> content.digest]
       IN  /\ disk' = Put(disk, PathJoin(upload_storage_dir,
                                         sha256(content) \o local[t].extension), content)
           /\ IF size_bytes <= 0
              THEN Respond(t, "ingest", args, 400, Failure("empty"))
              ELSE IF size_bytes > upload_max_bytes
              THEN Respond(t, "ingest", args, 413, Failure("too_large"))
              ELSE /\ pc' = [pc EXCEPT ![t] = "ingest_lock"]
                   /\ local' = [local EXCEPT ![t] =
                          [filename |-> local[t].filename,
                           extension |-> local[t].extension,
                           content |-> content,
                           size_bytes |-> size_bytes,
                           file_hash |-> sha256(content)]]
                   /\ responses' = responses
    /\ UNCHANGED <<started, lock, clock, next_id, normalization_max_errors, given, outcome>>

\* lines 102-119: await read(), the size gates, the digest
IngestRead(t) ==
    /\ pc[t] = "ingest_read"
    /\ LET content == local[t].upload_file
           size_bytes == content.size
           args == [filename |-> local[t].filename, digest |-> content.digest]
       IN  IF size_bytes <= 0
           THEN Respond(t, "ingest", args, 400, Failure("empty"))
           ELSE IF size_bytes > upload_max_bytes
           THEN Respond(t, "ingest", args, 413, Failure("too_large"))
           ELSE /\ pc' = [pc EXCEPT ![t] = "ingest_lock"]
                /\ local' = [local EXCEPT ![t] =
                       [filename |-> local[t].filename,
                        extension |-> local[t].extension,
                        content |-> content,
                        size_bytes |-> size_bytes,
                        file_hash |-> sha256(content)]]
                /\ responses' = responses
    /\ UNCHANGED <<started, disk, lock, clock, next_id, normalization_max_errors, given, outcome>>

\* lines 121-123: enter the lock and read the manifest
IngestLock(t) ==
    /\ pc[t] = "ingest_lock"
    /\ LockFree(t)
    /\ lock' = t
    /\ pc' = [pc EXCEPT ![t] = "ingest_locked"]
    /\ local' = [local EXCEPT ![t] =
           [k \in DOMAIN local[t] \cup {"manifest"} |->
               IF k = "manifest" THEN _read_manifest(disk) ELSE local[t][k]]]
    /\ UNCHANGED <<started, disk, responses, clock, next_id, normalization_max_errors, given, outcome>>

\* line 125
ExistingUpload(uploads, file_hash) ==
    FirstWhere(uploads, LAMBDA record : record.file_hash = file_hash)

\* lines 125-165: answer from the manifest, or store the file and append a record
IngestCommit(t) ==
    /\ pc[t] = "ingest_locked"
    /\ LET l == local[t]
           uploads == l.manifest.uploads
           existing == ExistingUpload(uploads, l.file_hash)
           args == [filename |-> l.filename, digest |-> l.content.digest]
           stored_filename == l.file_hash \o l.extension
           stored_path == PathJoin(upload_storage_dir, stored_filename)
           record == _create_upload_record(l.file_hash, l.filename, stored_filename,
                                           stored_path, l.size_bytes, next_id + 1, clock + 1)
       IN  IF Truthy(existing)
           THEN /\ Respond(t, "ingest", args, 200, IngestionResult(existing, TRUE))
                /\ UNCHANGED <<disk, clock, next_id>>
           ELSE /\ disk' = _write_manifest(Put(disk, stored_path, l.content),
                                           [l.manifest EXCEPT !.uploads = Append(uploads, record)])
                /\ next_id' = next_id + 1
                /\ clock' = clock + 1
                /\ Respond(t, "ingest", args, 200, IngestionResult(record, FALSE))
    /\ lock' = 0
    /\ UNCHANGED <<started, normalization_max_errors, given, outcome>>

\* get_upload (lines 178-191): the record of upload_id or None (NotFound); the
\* manifest is read inside the lock
get_upload(d, upload_id) ==
    FirstWhere(_read_manifest(d).uploads, LAMBDA entry : entry.upload_id = upload_id)

(***************************************************************************)
(* normalize_upload (normalization_service.py lines 390-515)               *)
(***************************************************************************)
NormalizeArgs(l) == [upload_id |-> l.upload_id, max_errors |-> l.max_errors]

\* line 391: get_upload, NotFound for an unknown upload_id
NormalizeStart(t, upload_id, max_errors) ==
    /\ CanStart(t)
    /\ LockFree(t)
    /\ LET upload == get_upload(disk, upload_id) IN
       IF ~Truthy(upload)
       THEN Respond(t, "normalize", [upload_id |-> upload_id, max_errors |-> max_errors],
                    404, Failure("upload_not_found"))
       ELSE /\ pc' = [pc EXCEPT ![t] = "normalize_open"]
            /\ local' = [local EXCEPT ![t] =
                   [upload_id |-> upload_id, max_errors |-> max_errors,
                    upload |-> upload]]
            /\ responses' = responses
    /\ started' = started + 1
    /\ UNCHANGED <<disk, lock, clock, next_id, normalization_max_errors, given, outcome>>

\* lines 400-420 without the extension gate of lines 395-399
NormalizeOpen_no_gate(t) ==
    /\ pc[t] = "normalize_open"
    /\ LET l == local[t]
           stored_path == l.upload.stored_path
       IN  IF stored_path \notin DOMAIN disk
           THEN Respond(t, "normalize", NormalizeArgs(l), 404, Failure("stored_file_not_found"))
           ELSE IF disk[stored_path].csv.fieldnames = <<>>
           THEN Respond(t, "normalize", NormalizeArgs(l), 400, Failure("header_missing"))
           ELSE /\ pc' = [pc EXCEPT ![t] = "normalize_rows"]
                /\ local' = [local EXCEPT ![t] =
                       [upload_id |-> l.upload_id, max_errors |-> l.max_errors,
                        upload |-> l.upload,
                        loc |-> LoopLocals(l.max_errors, normalization_max_errors),
                        fieldnames |-> disk[stored_path].csv.fieldnames,
                        records |-> DataRecords(disk[stored_path].csv),
                        row_number |-> 2]]
                /\ responses' = responses
    /\ UNCHANGED <<started, disk, lock, clock, next_id, normalization_max_errors, given, outcome>>

\* lines 392-420: the extension gate, the stored file, the locals of the loop,
\* the reader and its header
NormalizeOpen(t) ==
    /\ pc[t] = "normalize_open"
    /\ LET l == local[t]
           stored_path == l.upload.stored_path
           extension == lower(suffix(l.upload.stored_filename))
       IN  IF extension # ".csv"
           THEN Respond(t, "normalize", NormalizeArgs(l), 422, Failure("csv_only"))
           ELSE IF stored_path \notin DOMAIN disk
           THEN Respond(t, "normalize", NormalizeArgs(l), 404, Failure("stored_file_not_found"))
           ELSE IF disk[stored_path].csv.fieldnames = <<>>
           THEN Respond(t, "normalize", NormalizeArgs(l), 400, Failure("header_missing"))
           ELSE /\ pc' = [pc EXCEPT ![t] = "normalize_rows"]
                /\ local' = [local EXCEPT ![t] =
                       [upload_id |-> l.upload_id, max_errors |-> l.max_errors,
                        upload |-> l.upload,
                        loc |-> LoopLocals(l.max_errors, normalization_max_errors),
                        fieldnames |-> disk[stored_path].csv.fieldnames,
                        records |-> DataRecords(disk[stored_path].csv),
                        row_number |-> 2]]
                /\ responses' = responses
    /\ UNCHANGED <<started, disk, lock, clock, next_id, normalization_max_errors, given, outcome>>

\* an exception nothing catches ends the call: the service answers 500
Uncaught(t, l, raised) == Respond(t, "normalize", NormalizeArgs(l), 500, Failure(raised.t))

\* the locals after one row with the row number left as it was
RowDone_same_number(t, l, loc) ==
    IF loc.raised # None THEN Uncaught(t, l, loc.raised)
    ELSE /\ local' = [local EXCEPT ![t].loc = loc,
                                   ![t].records = Tail(l.records)]
         /\ UNCHANGED <<pc, responses>>

\* the locals loc after one row: an exception ends the call, else the loop goes on
RowDone(t, l, loc) ==
    IF loc.raised # None THEN Uncaught(t, l, loc.raised)
    ELSE /\ local' = [local EXCEPT ![t].loc = loc,
                                   ![t].records = Tail(l.records),
                                   ![t].row_number = l.row_number + 1]
         /\ UNCHANGED <<pc, responses>>

\* lines 422-443, one iteration: the next record of the file
NormalizeRow(t) ==
    /\ pc[t] = "normalize_rows"
    /\ LET l == local[t] IN
       IF l.records = <<>>
       THEN /\ pc' = [pc EXCEPT ![t] = "normalize_totals"]
            /\ UNCHANGED <<local, responses>>
       ELSE RowDone(t, l, LoopBody(l.loc, DictReaderRow(l.fieldnames, Head(l.records)),
                                   l.row_number))
    /\ UNCHANGED <<started, disk, lock, clock, next_id, normalization_max_errors, given, outcome>>

\* the locals loc after the loop: an exception ends the call, else line 445 is next
LoopDone(t, l, loc) ==
    IF loc.raised # None THEN Uncaught(t, l, loc.raised)
    ELSE /\ pc' = [pc EXCEPT ![t] = "normalize_totals"]
         /\ local' = [local EXCEPT ![t].loc = loc,
                                   ![t].records = <<>>,
                                   ![t].row_number = l.row_number + Len(l.records)]
         /\ responses' = responses

\* lines 422-443, the whole loop: it touches nothing but its locals and the
\* open file, which no call rewrites
NormalizeRows(t) ==
    /\ pc[t] = "normalize_rows"
    /\ LoopDone(t, local[t],
                RunLoop(local[t].loc, local[t].fieldnames, local[t].records,
                        local[t].row_number))
    /\ UNCHANGED <<started, disk, lock, clock, next_id, normalization_max_errors, given, outcome>>

_write_json(d, path, payload) == Put(d, path, payload)

\* lines 445-455 with the silver artifact written ahead of the test on rows_total
NormalizeTotals_write_first(t) ==
    /\ pc[t] = "normalize_totals"
    /\ LET l == local[t]
           rows_total == Len(l.loc.valid_rows) + Len(l.loc.invalid_rows)
           silver_path == ArtifactPath(silver_storage_dir, l.upload_id)
       IN  /\ disk' = _write_json(disk, silver_path,
                          [upload_id |-> l.upload_id, processed_at |-> clock + 1,
                           rows |-> l.loc.valid_rows])
           /\ clock' = clock + 1
           /\ IF rows_total = 0
              THEN Respond(t, "normalize", NormalizeArgs(l), 400, Failure("no_data_rows"))
              ELSE /\ pc' = [pc EXCEPT ![t] = "write_silver"]
                   /\ local' = [local EXCEPT ![t] =
                          [upload_id |-> l.upload_id, max_errors |-> l.max_errors,
                           upload |-> l.upload, loc |-> l.loc,
                           processed_at |-> clock + 1,
                           silver_path |-> silver_path,
                           quarantine_path |-> ArtifactPath(quarantine_storage_dir, l.upload_id),
                           report_path |-> ArtifactPath(normalization_report_dir, l.upload_id)]]
                   /\ responses' = responses
    /\ UNCHANGED <<started, lock, next_id, normalization_max_errors, given, outcome>>

\* lines 445-455: no data row is an error; else the time stamp and the paths
NormalizeTotals(t) ==
    /\ pc[t] = "normalize_totals"
    /\ LET l == local[t]
           rows_total == Len(l.loc.valid_rows) + Len(l.loc.invalid_rows)
       IN  IF rows_total = 0
           THEN /\ Respond(t, "normalize", NormalizeArgs(l), 400, Failure("no_data_rows"))
                /\ clock' = clock
           ELSE /\ pc' = [pc EXCEPT ![t] = "write_silver"]
                /\ clock' = clock + 1
                /\ local' = [local EXCEPT ![t] =
                       [upload_id |-> l.upload_id, max_errors |-> l.max_errors,
                        upload |-> l.upload, loc |-> l.loc,
                        processed_at |-> clock + 1,
                        silver_path |-> ArtifactPath(silver_storage_dir, l.upload_id),
                        quarantine_path |-> ArtifactPath(quarantine_storage_dir, l.upload_id),
                        report_path |-> ArtifactPath(normalization_report_dir, l.upload_id)]]
                /\ responses' = responses
    /\ UNCHANGED <<started, disk, lock, next_id, normalization_max_errors, given, outcome>>

\* lines 457-464
WriteSilver(t) ==
    /\ pc[t] = "write_silver"
    /\ LET l == local[t] IN
       disk' = _write_json(disk, l.silver_path,
                   [upload_id |-> l.upload_id, processed_at |-> l.processed_at,
                    rows |-> l.loc.valid_rows])
    /\ pc' = [pc EXCEPT ![t] = "write_quarantine"]
    /\ UNCHANGED <<started, lock, local, responses, clock, next_id, normalization_max_errors, given, outcome>>

\* lines 465-472 with the time read again for the quarantine artifact
WriteQuarantine_restamped(t) ==
    /\ pc[t] = "write_quarantine"
    /\ LET l == local[t] IN
       disk' = _write_json(disk, l.quarantine_path,
                   [upload_id |-> l.upload_id, processed_at |-> clock + 1,
                    rows |-> l.loc.invalid_rows])
    /\ clock' = clock + 1
    /\ pc' = [pc EXCEPT ![t] = "write_report"]
    /\ UNCHANGED <<started, lock, local, responses, next_id, normalization_max_errors, given, outcome>>

\* lines 465-472
WriteQuarantine(t) ==
    /\ pc[t] = "write_quarantine"
    /\ LET l == local[t] IN
       disk' = _write_json(disk, l.quarantine_path,
                   [upload_id |-> l.upload_id, processed_at |-> l.processed_at,
                    rows |-> l.loc.invalid_rows])
    /\ pc' = [pc EXCEPT ![t] = "write_report"]
    /\ UNCHANGED <<started, lock, local, responses, clock, next_id, normalization_max_errors, given, outcome>>

\* lines 474-499 with the report built but its file not written yet
WriteReport_unwritten(t) ==
    /\ pc[t] = "write_report"
    /\ LET l == local[t]
           report == BuildReport(l.upload_id, l.processed_at, l.upload, l.loc,
                                 l.silver_path, l.quarantine_path)
       IN  local' = [local EXCEPT ![t] =
                  [k \in DOMAIN l \cup {"report"} |->
                      IF k = "report" THEN report ELSE l[k]]]
    /\ pc' = [pc EXCEPT ![t] = "manifest_lock"]
    /\ UNCHANGED <<started, disk, lock, responses, clock, next_id,
                   normalization_max_errors, given, outcome>>

\* lines 474-499
WriteReport(t) ==
    /\ pc[t] = "write_report"
    /\ LET l == local[t]
           report == BuildReport(l.upload_id, l.processed_at, l.upload, l.loc,
                                 l.silver_path, l.quarantine_path)
       IN  /\ disk' = _write_json(disk, l.report_path, report)
           /\ local' = [local EXCEPT ![t] =
                  [k \in DOMAIN l \cup {"report"} |->
                      IF k = "report" THEN report ELSE l[k]]]
    /\ pc' = [pc EXCEPT ![t] = "manifest_lock"]
    /\ UNCHANGED <<started, lock, responses, clock, next_id, normalization_max_errors, given, outcome>>

\* _update_manifest_with_normalization, lines 375-377, reading the manifest
\* without the with-block of line 375
ManifestLock_no_lock(t) ==
    /\ pc[t] = "manifest_lock"
    /\ pc' = [pc EXCEPT ![t] = "manifest_locked"]
    /\ local' = [local EXCEPT ![t] =
           [k \in DOMAIN local[t] \cup {"manifest"} |->
               IF k = "manifest" THEN _read_manifest(disk) ELSE local[t][k]]]
    /\ UNCHANGED <<started, disk, lock, responses, clock, next_id, normalization_max_errors, given, outcome>>

\* _update_manifest_with_normalization, lines 375-377: enter the lock and
\* read the manifest
ManifestLock(t) ==
    /\ pc[t] = "manifest_lock"
    /\ LockFree(t)
    /\ lock' = t
    /\ pc' = [pc EXCEPT ![t] = "manifest_locked"]
    /\ local' = [local EXCEPT ![t] =
           [k \in DOMAIN local[t] \cup {"manifest"} |->
               IF k = "manifest" THEN _read_manifest(disk) ELSE local[t][k]]]
    /\ UNCHANGED <<started, disk, responses, clock, next_id, normalization_max_errors, given, outcome>>

\* lines 378-387 with a record made for the upload when none is found
ManifestUpdate_upsert(t) ==
    /\ pc[t] = "manifest_locked"
    /\ LET l == local[t]
           uploads == l.manifest.uploads
           target == FirstWhere(uploads, LAMBDA entry : entry.upload_id = l.upload_id)
           summary == BuildSummary(l.processed_at, l.loc, l.report_path,
                                   l.silver_path, l.quarantine_path)
       IN  /\ disk' = _write_manifest(disk,
                          [l.manifest EXCEPT
                              !.uploads =
                                  IF ~Truthy(target)
                                  THEN Append(uploads, [upload_id |-> l.upload_id,
                                                        normalization |-> summary])
                                  ELSE AttachSummary(uploads, l.upload_id, summary)])
           /\ Respond(t, "normalize", NormalizeArgs(l), 200, l.report)
    /\ lock' = 0
    /\ UNCHANGED <<started, clock, next_id, normalization_max_errors, given, outcome>>

\* _update_manifest_with_normalization, lines 378-387, and the return of
\* line 515
ManifestUpdate(t) ==
    /\ pc[t] = "manifest_locked"
    /\ LET l == local[t]
           uploads == l.manifest.uploads
           target == FirstWhere(uploads, LAMBDA entry : entry.upload_id = l.upload_id)
           summary == BuildSummary(l.processed_at, l.loc, l.report_path,
                                   l.silver_path, l.quarantine_path)
       IN  IF ~Truthy(target)
           THEN /\ Respond(t, "normalize", NormalizeArgs(l), 404, Failure("upload_not_found"))
                /\ disk' = disk
           ELSE /\ disk' = _write_manifest(disk,
                               [l.manifest EXCEPT
                                   !.uploads = AttachSummary(uploads, l.upload_id, summary)])
                /\ Respond(t, "normalize", NormalizeArgs(l), 200, l.report)
    /\ lock' = 0
    /\ UNCHANGED <<started, clock, next_id, normalization_max_errors, given, outcome>>

(***************************************************************************)
(* get_normalization_report (lines 518-540)                                *)
(***************************************************************************)
\* lines 519-525 with the report looked for under the name of the upload,
\* whether or not the record has a summary
GetReportStart_by_path(t, upload_id) ==
    /\ CanStart(t)
    /\ LockFree(t)
    /\ LET upload == get_upload(disk, upload_id)
           args == [upload_id |-> upload_id]
       IN  IF ~Truthy(upload)
           THEN Respond(t, "report", args, 404, Failure("upload_not_found"))
           ELSE IF ArtifactPath(normalization_report_dir, upload_id) \notin DOMAIN disk
           THEN Respond(t, "report", args, 404, Failure("no_normalization_report"))
           ELSE /\ pc' = [pc EXCEPT ![t] = "report_read"]
                /\ local' = [local EXCEPT ![t] =
                       [upload_id |-> upload_id,
                        report_path |-> ArtifactPath(normalization_report_dir, upload_id)]]
                /\ responses' = responses
    /\ started' = started + 1
    /\ UNCHANGED <<disk, lock, clock, next_id, normalization_max_errors, given, outcome>>

\* lines 519-525
GetReportStart(t, upload_id) ==
    /\ CanStart(t)
    /\ LockFree(t)
    /\ LET upload == get_upload(disk, upload_id)
           normalization == Get(upload, "normalization")
           args == [upload_id |-> upload_id]
       IN  IF ~Truthy(upload)
           THEN Respond(t, "report", args, 404, Failure("upload_not_found"))
           ELSE IF normalization = None
           THEN Respond(t, "report", args, 404, Failure("no_normalization_report"))
           ELSE /\ pc' = [pc EXCEPT ![t] = "report_read"]
                /\ local' = [local EXCEPT ![t] =
                       [upload_id |-> upload_id,
                        report_path |-> normalization.report_path]]
                /\ responses' = responses
    /\ started' = started + 1
    /\ UNCHANGED <<disk, lock, clock, next_id, normalization_max_errors, given, outcome>>

\* lines 527-540
GetReportRead(t) ==
    /\ pc[t] = "report_read"
    /\ LET l == local[t] IN
       IF l.report_path \notin DOMAIN disk
       THEN Respond(t, "report", [upload_id |-> l.upload_id], 500, Failure("report_missing"))
       ELSE Respond(t, "report", [upload_id |-> l.upload_id], 200, disk[l.report_path])
    /\ UNCHANGED <<started, disk, lock, clock, next_id, normalization_max_errors, given, outcome>>

(***************************************************************************)
(* The environment                                                         *)
(***************************************************************************)
\* the process stops, between any two steps of its calls: the calls under way
\* are lost with the lock, the files stay
Crash ==
    /\ \E t \in Threads : pc[t] # "idle"
    /\ pc' = [t \in Threads |-> "idle"]
    /\ local' = [t \in Threads |-> <<>>]
    /\ lock' = 0
    /\ UNCHANGED <<disk, responses, started, clock, next_id, normalization_max_errors, given, outcome>>

\* someone removes the stored file of an upload
StoredFileLost ==
    /\ \A t \in Threads : pc[t] = "idle"
    /\ \E i \in 1..Len(_read_manifest(disk).uploads) :
          LET stored_path == _read_manifest(disk).uploads[i].stored_path IN
          /\ stored_path \in DOMAIN disk
          /\ disk' = [path \in DOMAIN disk \ {stored_path} |-> disk[path]]
    /\ UNCHANGED <<lock, pc, local, responses, started, clock, next_id,
                   normalization_max_errors, given, outcome>>

(***************************************************************************)
(* The service: calls of the three operations by the threads of the        *)
(* server, from an empty storage directory                                 *)
(***************************************************************************)
\* settings.normalization_max_errors as the tests configure it
TestCeiling == 50

NoRow == <<>>
NoOutcome == [called |-> FALSE]

\* the uploads a client sends: a file name and a content
Lanes == CsvContent(<<1, 2>>)
IngestInputs ==
    { <<"lanes.csv", Lanes>>, <<"copy.xlsx", Lanes>>,
      <<"notes.txt", Lanes>>, <<"book.xlsx", FakeXlsxContent>>,
      <<"empty.csv", EmptyContent>>, <<"huge.csv", HugeContent>>,
      <<"header.csv", CsvContent(<<>>)>>, <<"blank.csv", BlankLineContent>>,
      <<"dates.csv", CsvContent(<<1, 5>>)>> }

\* the upload ids a client asks for: the ones handed out and one never handed out
RequestIds == {"upl_" \o uuid4(n) : n \in 1..next_id} \cup {"upl_unknown"}

\* the max_errors a client passes
RequestMaxErrors == {1, 100}

Init ==
    /\ disk = <<>>
    /\ lock = 0
    /\ pc = [t \in Threads |-> "idle"]
    /\ local = [t \in Threads |-> <<>>]
    /\ responses = {}
    /\ started = 0
    /\ clock = 0
    /\ next_id = 0
    /\ normalization_max_errors = TestCeiling
    /\ given = NoRow
    /\ outcome = NoOutcome

Next ==
    \/ \E t \in Threads :
          \/ \E input \in IngestInputs : IngestStart(t, input[1], input[2])
          \/ IngestRead(t)
          \/ IngestLock(t)
          \/ IngestCommit(t)
          \/ \E upload_id \in RequestIds, max_errors \in RequestMaxErrors :
                NormalizeStart(t, upload_id, max_errors)
          \/ NormalizeOpen(t)
          \/ NormalizeRows(t)
          \/ NormalizeTotals(t)
          \/ WriteSilver(t)
          \/ WriteQuarantine(t)
          \/ WriteReport(t)
          \/ ManifestLock(t)
          \/ ManifestUpdate(t)
          \/ \E upload_id \in RequestIds : GetReportStart(t, upload_id)
          \/ GetReportRead(t)
    \/ Crash
    \/ StoredFileLost

Spec == Init /\ [][Next]_vars

(***************************************************************************)
(* One run of normalize_upload, row by row, over a stored CSV file         *)
(***************************************************************************)
\* the storage directory after the upload of content as lanes.csv
Stored(content) ==
    LET file_hash == sha256(content)
        stored_filename == file_hash \o ".csv"
        stored_path == PathJoin(upload_storage_dir, stored_filename)
        record == _create_upload_record(file_hash, "lanes.csv", stored_filename,
                                        stored_path, content.size, 1, 1)
    IN  _write_manifest(Put(<<>>, stored_path, content), [uploads |-> <<record>>])

\* the files: every sequence of sample rows up to MaxRows, the empty one included
BatchContents == {CsvContent(ixs) : ixs \in SeqsUpTo(Len(SampleRows), MaxRows)}

\* the values of settings.normalization_max_errors
Ceilings == (1..MaxCeiling) \cup {TestCeiling}

BatchUploadId == "upl_" \o uuid4(1)

InitBatch ==
    /\ disk \in {Stored(content) : content \in BatchContents}
    /\ lock = 0
    /\ pc = [t \in Threads |-> "idle"]
    /\ local = [t \in Threads |-> <<>>]
    /\ responses = {}
    /\ started = 0
    /\ clock = 1
    /\ next_id = 1
    /\ normalization_max_errors \in Ceilings
    /\ given = NoRow
    /\ outcome = NoOutcome

NextBatch ==
    \/ \E max_errors \in 0..MaxErrorsArg :
          started = 0 /\ NormalizeStart(1, BatchUploadId, max_errors)
    \/ NormalizeOpen(1)
    \/ NormalizeRow(1)
    \/ NormalizeTotals(1)
    \/ WriteSilver(1)
    \/ WriteQuarantine(1)
    \/ WriteReport(1)
    \/ ManifestLock(1)
    \/ ManifestUpdate(1)

SpecBatch == InitBatch /\ [][NextBatch]_vars

(***************************************************************************)
(* Runs of normalize_upload on an upload whose record stands among the     *)
(* records of other uploads and can be taken out of the manifest while a   *)
(* run is under way                                                        *)
(***************************************************************************)
\* the record of another upload, the id-th, normalized before or not
OtherRecord(id, normalized) ==
    LET file_hash == "sha_other" \o Char(DigitChars, id + 1)
        stored_filename == file_hash \o ".csv"
        record == _create_upload_record(file_hash, "other.csv", stored_filename,
                                        PathJoin(upload_storage_dir, stored_filename),
                                        100, id, 1)
        upload_id == record.upload_id
        summary == BuildSummary(1, [valid_rows |-> <<>>, invalid_rows |-> <<>>],
                                ArtifactPath(normalization_report_dir, upload_id),
                                ArtifactPath(silver_storage_dir, upload_id),
                                ArtifactPath(quarantine_storage_dir, upload_id))
    IN  IF normalized THEN AttachSummary(<<record>>, upload_id, summary)[1] ELSE record

\* the storage directory of Stored(content) with the records before and after
\* the record of the upload
StoredAmong(content, before, after) ==
    LET d == Stored(content) IN
    _write_manifest(d, [uploads |-> before \o _read_manifest(d).uploads \o after])

AttachContents == {Lanes, CsvContent(<<1>>)}

InitAttach ==
    /\ disk \in {StoredAmong(content, before, after) :
                    content \in AttachContents,
                    before \in {<<>>, <<OtherRecord(2, TRUE)>>},
                    after \in {<<>>, <<OtherRecord(3, FALSE)>>}}
    /\ lock = 0
    /\ pc = [t \in Threads |-> "idle"]
    /\ local = [t \in Threads |-> <<>>]
    /\ responses = {}
    /\ started = 0
    /\ clock = 1
    /\ next_id = 3
    /\ normalization_max_errors = TestCeiling
    /\ given = NoRow
    /\ outcome = NoOutcome

\* the record of the upload is taken out of the manifest file, by hand, while
\* a run is under way and outside the lock
RecordLost ==
    /\ pc[1] # "idle"
    /\ lock = 0
    /\ Truthy(get_upload(disk, BatchUploadId))
    /\ disk' = _write_manifest(disk,
                   [_read_manifest(disk) EXCEPT
                       !.uploads = SelectSeq(@, LAMBDA entry :
                                                    entry.upload_id # BatchUploadId)])
    /\ UNCHANGED <<lock, pc, local, responses, started, clock, next_id,
                   normalization_max_errors, given, outcome>>

NextAttach ==
    \/ \E max_errors \in RequestMaxErrors : NormalizeStart(1, BatchUploadId, max_errors)
    \/ NormalizeOpen(1)
    \/ NormalizeRows(1)
    \/ NormalizeTotals(1)
    \/ WriteSilver(1)
    \/ WriteQuarantine(1)
    \/ WriteReport(1)
    \/ ManifestLock(1)
    \/ ManifestUpdate(1)
    \/ RecordLost

SpecAttach == InitAttach /\ [][NextAttach]_vars

(***************************************************************************)
(* Runs of normalize_upload and calls of get_normalization_report on one   *)
(* stored upload, by the threads of the server                             *)
(***************************************************************************)
InitReport ==
    /\ disk \in {Stored(content) : content \in AttachContents}
    /\ lock = 0
    /\ pc = [t \in Threads |-> "idle"]
    /\ local = [t \in Threads |-> <<>>]
    /\ responses = {}
    /\ started = 0
    /\ clock = 1
    /\ next_id = 1
    /\ normalization_max_errors = TestCeiling
    /\ given = NoRow
    /\ outcome = NoOutcome

NextReport ==
    \/ \E t \in Threads :
          \/ \E max_errors \in RequestMaxErrors :
                NormalizeStart(t, BatchUploadId, max_errors)
          \/ NormalizeOpen(t)
          \/ NormalizeRows(t)
          \/ NormalizeTotals(t)
          \/ WriteSilver(t)
          \/ WriteQuarantine(t)
          \/ WriteReport(t)
          \/ ManifestLock(t)
          \/ ManifestUpdate(t)
          \/ \E upload_id \in {BatchUploadId, "upl_unknown"} : GetReportStart(t, upload_id)
          \/ GetReportRead(t)
    \/ Crash

SpecReport == InitReport /\ [][NextReport]_vars

(***************************************************************************)
(* One run of normalize_upload on a stored file long enough to hold more   *)
(* valid rows than the sample of the report takes                          *)
(***************************************************************************)
\* the rows of the long files: an accepted row, a rejected row and an accepted
\* row whose normalized form differs from the first
SampleKinds == <<1, 2, 3>>

LongContents ==
    {CsvContent([i \in 1..Len(ixs) |-> SampleKinds[ixs[i]]]) :
        ixs \in SeqsUpTo(Len(SampleKinds), MaxSampleRows)}

InitSample ==
    /\ disk \in {Stored(content) : content \in LongContents}
    /\ lock = 0
    /\ pc = [t \in Threads |-> "idle"]
    /\ local = [t \in Threads |-> <<>>]
    /\ responses = {}
    /\ started = 0
    /\ clock = 1
    /\ next_id = 1
    /\ normalization_max_errors = TestCeiling
    /\ given = NoRow
    /\ outcome = NoOutcome

NextSample ==
    \/ \E max_errors \in RequestMaxErrors :
          started = 0 /\ NormalizeStart(1, BatchUploadId, max_errors)
    \/ NormalizeOpen(1)
    \/ NormalizeRows(1)
    \/ NormalizeTotals(1)
    \/ WriteSilver(1)
    \/ WriteQuarantine(1)
    \/ WriteReport(1)
    \/ ManifestLock(1)
    \/ ManifestUpdate(1)

SpecSample == InitSample /\ [][NextSample]_vars

(***************************************************************************)
(* Runs of normalize_upload on two stored uploads, one run for each, and   *)
(* calls of ingest_upload, by the threads of the server                    *)
(***************************************************************************)
SecondContent == CsvContent(<<3>>)
SecondUploadId == "upl_" \o uuid4(2)

\* the storage directory after the uploads of Lanes and of SecondContent
StoredTwo ==
    LET d == Stored(Lanes)
        file_hash == sha256(SecondContent)
        stored_filename == file_hash \o ".csv"
        stored_path == PathJoin(upload_storage_dir, stored_filename)
        record == _create_upload_record(file_hash, "second.csv", stored_filename,
                                        stored_path, SecondContent.size, 2, 2)
    IN  _write_manifest(Put(d, stored_path, SecondContent),
                        [uploads |-> Append(_read_manifest(d).uploads, record)])

\* the uploads the clients send meanwhile: two new files and one stored before
ManifestIngests ==
    { <<"new.csv", CsvContent(<<1>>)>>, <<"more.csv", CsvContent(<<6>>)>>,
      <<"again.csv", Lanes>> }

\* no call of normalize_upload for the upload has been made yet
NotAsked(upload_id) ==
    /\ \A r \in responses : ~(r.op = "normalize" /\ r.args.upload_id = upload_id)
    /\ \A t \in Threads :
          ~(pc[t] # "idle" /\ "upload_id" \in DOMAIN local[t]
                /\ local[t].upload_id = upload_id)

\* no call of ingest_upload with the file name has been made yet
NotSent(filename) ==
    /\ \A r \in responses : ~(r.op = "ingest" /\ r.args.filename = filename)
    /\ \A t \in Threads :
          ~(pc[t] # "idle" /\ "filename" \in DOMAIN local[t]
                /\ local[t].filename = filename)

InitManifest ==
    /\ disk = StoredTwo
    /\ lock = 0
    /\ pc = [t \in Threads |-> "idle"]
    /\ local = [t \in Threads |-> <<>>]
    /\ responses = {}
    /\ started = 0
    /\ clock = 2
    /\ next_id = 2
    /\ normalization_max_errors = TestCeiling
    /\ given = NoRow
    /\ outcome = NoOutcome

NextManifest ==
    \E t \in Threads :
        \/ \E input \in ManifestIngests :
              NotSent(input[1]) /\ IngestStart(t, input[1], input[2])
        \/ IngestRead(t)
        \/ IngestLock(t)
        \/ IngestCommit(t)
        \/ \E upload_id \in {BatchUploadId, SecondUploadId}, max_errors \in RequestMaxErrors :
              NotAsked(upload_id) /\ NormalizeStart(t, upload_id, max_errors)
        \/ NormalizeOpen(t)
        \/ NormalizeRows(t)
        \/ NormalizeTotals(t)
        \/ WriteSilver(t)
        \/ WriteQuarantine(t)
        \/ WriteReport(t)
        \/ ManifestLock(t)
        \/ ManifestUpdate(t)

SpecManifest == InitManifest /\ [][NextManifest]_vars

(***************************************************************************)
(* One call of _normalize_row on a row of the test file with some of its   *)
(* cells rewritten                                                         *)
(***************************************************************************)
\* what a cell of each column of TestHeader can be rewritten to
CellEdits ==
    << {""},
       {"", "X Y"},
       {""},
       {""},
       {"", "cn"},
       {""},
       {"", "garbage", "2026-03-02", "2026/03/01", "2026-03-01T00:00:00Z",
        "2026-02-20Z10:00:00"},
       {"", "junk", "2026-02-19", "02/20/2026"},
       {"", "boat", "Ocean"},
       {"", "abc", "-10", "1,200", "nan"},
       {"", "-1"},
       {"", "free", "-0"},
       {"", "asap", "P1"},
       {"", "maybe", "yes"} >>

\* the rows that differ from cells in at most budget columns, from column on
RECURSIVE EditedRows(_, _, _)
EditedRows(cells, column, budget) ==
    IF column > Len(cells) THEN {<<>>}
    ELSE {<<cells[column]>> \o rest : rest \in EditedRows(cells, column + 1, budget)}
         \cup (IF budget = 0 THEN {}
               ELSE {<<cell>> \o rest : cell \in CellEdits[column],
                                        rest \in EditedRows(cells, column + 1, budget - 1)})

\* the test row with up to MaxEdits cells rewritten, and the row of origin and
\* destination only
RowInputs == EditedRows(ValidCells, 1, MaxEdits) \cup {SparseCells}

InitRow ==
    /\ given \in RowInputs
    /\ outcome = NoOutcome
    /\ disk = <<>>
    /\ lock = 0
    /\ pc = [t \in Threads |-> "idle"]
    /\ local = [t \in Threads |-> <<>>]
    /\ responses = {}
    /\ started = 0
    /\ clock = 0
    /\ next_id = 0
    /\ normalization_max_errors = TestCeiling

\* the call _normalize_row(row, 2) on the first data row of a file
CallNormalizeRow ==
    /\ ~outcome.called
    /\ outcome' = [called |-> TRUE,
                   result |-> _normalize_row(DictReaderRow(TestHeader, given), 2)]
    /\ UNCHANGED <<disk, lock, pc, local, responses, started, clock, next_id,
                   normalization_max_errors, given>>

NextRow == CallNormalizeRow

SpecRow == InitRow /\ [][NextRow]_vars

(***************************************************************************)
(* One call of _lookup_field on the row of a file with a few columns       *)
(***************************************************************************)
\* the headers a column can have: the canonical name, the same name as a
\* person writes it, and two of its aliases, the later of the table first
LookupHeaders == <<"shipment_id", "Shipment ID", "tracking_number", "Shipment">>

\* the cells a column can have: a blank one and two values
LookupCells == <<" ", "A", "B">>

\* the fields asked for: the one the columns are for and one they are not for
LookupFields == {"shipment_id", "order_id"}

\* the files of one record: up to MaxColumns columns, the record as long as
\* the header or one cell short
LookupInputs ==
    {[fieldnames |-> [i \in 1..Len(h) |-> LookupHeaders[h[i]]],
      cells |-> [i \in 1..Len(c) |-> LookupCells[c[i]]],
      field |-> field] :
        h \in SeqsUpTo(Len(LookupHeaders), MaxColumns),
        c \in SeqsUpTo(Len(LookupCells), MaxColumns),
        field \in LookupFields}

InitLookup ==
    /\ given \in {input \in LookupInputs :
                     /\ Len(input.fieldnames) >= 1
                     /\ Len(input.cells) \in {Len(input.fieldnames) - 1,
                                              Len(input.fieldnames)}}
    /\ outcome = NoOutcome
    /\ disk = <<>>
    /\ lock = 0
    /\ pc = [t \in Threads |-> "idle"]
    /\ local = [t \in Threads |-> <<>>]
    /\ responses = {}
    /\ started = 0
    /\ clock = 0
    /\ next_id = 0
    /\ normalization_max_errors = TestCeiling

\* the call _lookup_field(_row_lookup(row), field) of line 232
CallLookupField ==
    /\ ~outcome.called
    /\ outcome' = [called |-> TRUE,
                   result |-> _lookup_field(
                                  _row_lookup(DictReaderRow(given.fieldnames, given.cells)),
                                  given.field)]
    /\ UNCHANGED <<disk, lock, pc, local, responses, started, clock, next_id,
                   normalization_max_errors, given>>

NextLookup == CallLookupField

SpecLookup == InitLookup /\ [][NextLookup]_vars

(***************************************************************************)
(* Properties                                                              *)
(***************************************************************************)
\* the responses of the runs of normalize_upload that gave a report
Reports == {r \in responses : r.op = "normalize" /\ r.status_code = 200}

\* the table read from the stored file of an upload
StoredCsv(upload_id) == disk[get_upload(disk, upload_id).stored_path].csv

\* what _normalize_row gives for each data row of a table
RowResults(csv) ==
    LET records == DataRecords(csv) IN
    [i \in 1..Len(records) |->
        NormalizeRowCall(DictReaderRow(csv.fieldnames, records[i]), i + 1)]

RECURSIVE SumLen(_)
SumLen(lists) == IF lists = <<>> THEN 0 ELSE Len(Head(lists)) + SumLen(Tail(lists))

\* the number of errors over all the data rows of a table
TrueErrorCount(csv) ==
    LET results == RowResults(csv) IN
    SumLen([i \in 1..Len(results) |-> results[i].errors])

\* C1: for a run with effective_error_limit = k the errors array of the report
\* has at most k entries, and when the rows of the file have more than k errors
\* in all, totals.error_limit_reached is true.
C1_CapLaw ==
    \A r \in Reports :
        LET k == EffectiveErrorLimit(r.args.max_errors, normalization_max_errors) IN
        /\ Len(r.data.errors) <= k
        /\ TrueErrorCount(StoredCsv(r.args.upload_id)) > k
              => r.data.totals.error_limit_reached

\* a run whose file has more errors than the limit: the report is full and flagged
C1_Witness ==
    \E r \in Reports :
        LET k == EffectiveErrorLimit(r.args.max_errors, normalization_max_errors) IN
        /\ TrueErrorCount(StoredCsv(r.args.upload_id)) > k
        /\ Len(r.data.errors) = k
        /\ r.data.totals.error_limit_reached

\* C2: a run over a stored CSV with a header and at least one data row ends
\* with a report, whatever the cells of its rows are: no row makes it end in
\* an exception.
C2_RowsNeverAbort ==
    \A r \in responses :
        (r.op = "normalize" /\ DataRecords(StoredCsv(r.args.upload_id)) # <<>>)
            => r.status_code = 200

\* C3: the loop keeps a row as valid exactly when _normalize_row collected no
\* error for it (and then gave a normalized row), and quarantines it, with
\* nothing added to the valid rows, as soon as it has one error.
C3_AllOrNothing ==
    [][ (pc[1] = "normalize_rows" /\ pc'[1] = "normalize_rows")
          => LET l == local[1]
                 r == DictReaderRow(l.fieldnames, Head(l.records))
                 res == NormalizeRowCall(r, l.row_number)
                 after == local'[1].loc
             IN  /\ (res.normalized # None) <=> (res.errors = <<>>)
                 /\ IF res.errors = <<>>
                    THEN /\ after.valid_rows = Append(l.loc.valid_rows, res.normalized)
                         /\ after.invalid_rows = l.loc.invalid_rows
                    ELSE /\ after.valid_rows = l.loc.valid_rows
                         /\ after.invalid_rows =
                               Append(l.loc.invalid_rows,
                                      [row_number |-> l.row_number, raw |-> r,
                                       errors |-> res.errors]) ]_vars

\* a finished loop that has kept a row and quarantined a row with one error
C3_Witness ==
    /\ pc[1] = "normalize_totals"
    /\ local[1].loc.valid_rows # <<>>
    /\ \E i \in 1..Len(local[1].loc.invalid_rows) :
          Len(local[1].loc.invalid_rows[i].errors) = 1

\* the records of the manifest on disk
Uploads == _read_manifest(disk).uploads

\* C4: a step in which normalize_upload answers with a terminal input error
\* (400, 404 or 422) changes no file, and the call that answers so has
\* written none: the steps of a call before its first write change no file,
\* and no call that has written an artifact ends in this step.
C4_TerminalErrorWritesNothing ==
    [][ /\ (\E r \in responses' \ responses :
               r.op = "normalize" /\ r.status_code \in {400, 404, 422})
            => /\ disk' = disk
               /\ \A t \in Threads :
                     pc[t] \in {"write_quarantine", "write_report",
                                "manifest_lock", "manifest_locked"}
                         => pc'[t] = pc[t]
        /\ \A t \in Threads :
              (pc[t] \in {"normalize_open", "normalize_rows", "normalize_totals"}
                  /\ pc'[t] # pc[t]) => disk' = disk ]_vars

\* a file of a header and no data row was refused, and there is no artifact
\* and no summary of it
C4_Witness ==
    \E r \in responses :
        /\ r.op = "normalize" /\ r.status_code = 400
        /\ r.data = Failure("no_data_rows")
        /\ ArtifactPath(silver_storage_dir, r.args.upload_id) \notin DOMAIN disk
        /\ ArtifactPath(quarantine_storage_dir, r.args.upload_id) \notin DOMAIN disk
        /\ ArtifactPath(normalization_report_dir, r.args.upload_id) \notin DOMAIN disk
        /\ ~Has(get_upload(disk, r.args.upload_id), "normalization")

\* C5: the writes go silver, quarantine, report, summary: a call past a write
\* has the files written before it on disk, and in every state, also after an
\* interruption, a record with a normalization summary has the three files
\* the summary names on disk.
C5_SummaryImpliesArtifacts ==
    /\ \A i \in 1..Len(Uploads) :
          Has(Uploads[i], "normalization")
              => /\ Uploads[i].normalization.silver_path \in DOMAIN disk
                 /\ Uploads[i].normalization.quarantine_path \in DOMAIN disk
                 /\ Uploads[i].normalization.report_path \in DOMAIN disk
    /\ \A t \in Threads :
          /\ pc[t] \in {"write_quarantine", "write_report", "manifest_lock", "manifest_locked"}
                => local[t].silver_path \in DOMAIN disk
          /\ pc[t] \in {"write_report", "manifest_lock", "manifest_locked"}
                => local[t].quarantine_path \in DOMAIN disk
          /\ pc[t] \in {"manifest_lock", "manifest_locked"}
                => local[t].report_path \in DOMAIN disk

\* no call is under way, a record has its summary and its three files, and the
\* silver file is that of a later run that was interrupted before its summary
C5_Witness ==
    /\ \A t \in Threads : pc[t] = "idle"
    /\ \E i \in 1..Len(Uploads) :
          /\ Has(Uploads[i], "normalization")
          /\ Uploads[i].normalization.silver_path \in DOMAIN disk
          /\ Uploads[i].normalization.quarantine_path \in DOMAIN disk
          /\ Uploads[i].normalization.report_path \in DOMAIN disk
          /\ disk[Uploads[i].normalization.silver_path].processed_at
                > Uploads[i].normalization.processed_at
          /\ disk[Uploads[i].normalization.report_path].processed_at
                = Uploads[i].normalization.processed_at

\* C6: two runs of normalize_upload on one upload with the same max_errors
\* give reports with the same totals and the same sample_normalized_rows and
\* name the same artifact paths; the later run rewrites the files at those
\* paths, and the manifest keeps one record of the upload with one summary.
C6_Idempotence ==
    /\ \A r1, r2 \in Reports :
          (r1.args = r2.args)
              => /\ r1.data.totals = r2.data.totals
                 /\ r1.data.sample_normalized_rows = r2.data.sample_normalized_rows
                 /\ r1.data.artifacts = r2.data.artifacts
    /\ \A i, j \in 1..Len(Uploads) :
          Uploads[i].upload_id = Uploads[j].upload_id => i = j
    /\ \A r \in Reports : \E i \in 1..Len(Uploads) :
          /\ Uploads[i].upload_id = r.args.upload_id
          /\ Has(Uploads[i], "normalization")
          /\ Uploads[i].normalization.silver_path = r.data.artifacts.silver_path
          /\ Uploads[i].normalization.quarantine_path = r.data.artifacts.quarantine_path
          /\ Uploads[i].normalization.report_path
                = ArtifactPath(normalization_report_dir, r.args.upload_id)
          /\ disk[Uploads[i].normalization.report_path].upload_id = r.args.upload_id
          /\ disk[r.data.artifacts.silver_path].upload_id = r.args.upload_id
          /\ disk[r.data.artifacts.quarantine_path].upload_id = r.args.upload_id

\* two runs, one after the other, on one upload with one max_errors: the files
\* and the summary are those of the second
C6_Witness ==
    \E r1, r2 \in Reports :
        /\ r1.args = r2.args
        /\ r1.data.processed_at < r2.data.processed_at
        /\ \A t \in Threads : pc[t] = "idle"
        /\ get_upload(disk, r2.args.upload_id).normalization.processed_at
              = r2.data.processed_at
        /\ disk[r2.data.artifacts.silver_path].processed_at = r2.data.processed_at
        /\ disk[ArtifactPath(normalization_report_dir, r2.args.upload_id)] = r2.data

\* the answers of ingest_upload that carry a record
Ingested == {r \in responses : r.op = "ingest" /\ r.status_code = 200}

\* C7: the manifest holds at most one record per file_hash; all the answers
\* for one content name one upload_id, which is a record of the manifest with
\* that hash; at most one of them, the first, has cached = false and every
\* other has cached = true; a cached answer adds no record.
C7_DedupeByHash ==
    /\ \A i, j \in 1..Len(Uploads) :
          Uploads[i].file_hash = Uploads[j].file_hash => i = j
    /\ \A r1, r2 \in Ingested :
          r1.data.file_hash = r2.data.file_hash
              => /\ r1.data.upload_id = r2.data.upload_id
                 /\ (~r1.data.cached /\ ~r2.data.cached) => r1 = r2
    /\ \A r \in Ingested :
          /\ r.data.file_hash = r.args.digest
          /\ \E i \in 1..Len(Uploads) :
                /\ Uploads[i].upload_id = r.data.upload_id
                /\ Uploads[i].file_hash = r.data.file_hash
          /\ r.data.cached
                => \E first \in Ingested :
                      ~first.data.cached /\ first.data.file_hash = r.data.file_hash
    /\ Cardinality({r \in Ingested : ~r.data.cached}) = Len(Uploads)

\* one content sent under two file names: the second answer is cached, names
\* the upload of the first, and the manifest has one record
C7_Witness ==
    \E r1, r2 \in Ingested :
        /\ r1.args.digest = r2.args.digest
        /\ r1.args.filename # r2.args.filename
        /\ ~r1.data.cached
        /\ r2.data.cached
        /\ r2.data.upload_id = r1.data.upload_id
        /\ Len(Uploads) = 1

\* C8: every data row with an error is counted in rows_invalid and is in the
\* quarantine artifact with its row number, its raw cells and all its errors,
\* whether or not the errors array of the report had room for them.
C8_InvalidWhateverTheCap ==
    \A r \in Reports :
        LET csv == StoredCsv(r.args.upload_id)
            results == RowResults(csv)
            records == DataRecords(csv)
            failed == {i \in 1..Len(results) : results[i].errors # <<>>}
            quarantine == disk[r.data.artifacts.quarantine_path].rows
        IN  /\ r.data.totals.rows_invalid = Cardinality(failed)
            /\ Len(quarantine) = Cardinality(failed)
            /\ \A i \in failed : \E j \in 1..Len(quarantine) :
                  /\ quarantine[j].row_number = i + 1
                  /\ quarantine[j].raw = DictReaderRow(csv.fieldnames, records[i])
                  /\ quarantine[j].errors = results[i].errors

\* the limit was reached before a later row with errors: none of its errors
\* is in the report, and the row is in the quarantine artifact
C8_Witness ==
    \E r \in Reports :
        LET results == RowResults(StoredCsv(r.args.upload_id))
            quarantine == disk[r.data.artifacts.quarantine_path].rows
        IN  /\ r.data.totals.error_limit_reached
            /\ \E i \in 1..Len(results) :
                  /\ results[i].errors # <<>>
                  /\ \A k \in 1..Len(r.data.errors) : r.data.errors[k].row_number # i + 1
                  /\ \E j \in 1..Len(quarantine) :
                        /\ quarantine[j].row_number = i + 1
                        /\ quarantine[j].errors = results[i].errors

\* the indices of the entries of a list of errors or warnings with a code
WithCode(items, code) == {i \in 1..Len(items) : items[i].code = code}

\* C9: when the shipment_id cell is blank and the order_id cell is not, the
\* call has exactly one derived_shipment_id warning, whose value, the
\* shipment_id of the row, is "derived_" and the slug of the order id, and no
\* missing_required error for shipment_id; when the shipment_id cell is not
\* blank, or the order_id cell is blank too, it has no such warning.
C9_DerivedId ==
    outcome.called =>
        LET res == outcome.result
            shipment_id == strip(given[1])
            order_id == strip(given[2])
            derived == WithCode(res.warnings, "derived_shipment_id")
        IN  IF shipment_id = "" /\ order_id # ""
            THEN /\ Cardinality(derived) = 1
                 /\ \A i \in derived :
                       /\ res.warnings[i].field = "shipment_id"
                       /\ res.warnings[i].value = Str("derived_" \o _slugify(order_id))
                 /\ \A i \in WithCode(res.errors, "missing_required") :
                       res.errors[i].field # "shipment_id"
                 /\ res.normalized # None
                       => res.normalized["shipment_id"] = Str("derived_" \o _slugify(order_id))
            ELSE /\ derived = {}
                 /\ (res.normalized # None /\ shipment_id # "")
                       => res.normalized["shipment_id"] = Str(shipment_id)

\* the row of the law: no shipment_id, order_id "X Y", the row accepted with
\* shipment_id "derived_x_y"
C9_Witness ==
    /\ outcome.called
    /\ given[1] = "" /\ given[2] = "X Y"
    /\ outcome.result.normalized # None
    /\ outcome.result.normalized["shipment_id"] = Str("derived_x_y")
    /\ Cardinality(WithCode(outcome.result.warnings, "derived_shipment_id")) = 1

\* C10: the call never ends in an exception over its timestamps: it has one
\* invalid_time_order error, on planned_arrival_ts, when both timestamps
\* parse and the departure is later than the arrival, and none when they are
\* equal or in order or when either is blank or does not parse.
C10_TimeOrderOnlyWhenBothParsed ==
    outcome.called =>
        LET res == outcome.result
            departure == _to_datetime(Str(given[7]))
            arrival == _to_datetime(Str(given[8]))
            late == /\ departure # None
                    /\ arrival # None
                    /\ datetime_gt(fromisoformat(departure.v), fromisoformat(arrival.v))
            order == WithCode(res.errors, "invalid_time_order")
        IN  /\ res.raised = None
            /\ late => (Cardinality(order) = 1
                         /\ \A i \in order : res.errors[i].field = "planned_arrival_ts")
            /\ ~late => order = {}

\* the records of the manifest whose stored file is no .csv file
NotCsv == {i \in 1..Len(Uploads) : lower(suffix(Uploads[i].stored_filename)) # ".csv"}

\* C11: an upload that ingest_upload accepted and stored under an extension
\* other than .csv is refused by normalize_upload with 422 before a row is
\* read: every answer of normalize_upload for it is that refusal, no call for
\* it gets as far as the rows, and it has no artifact and no summary.
C11_NonCsvRefused ==
    \A i \in NotCsv :
        LET upload_id == Uploads[i].upload_id IN
        /\ \A r \in responses :
              (r.op = "normalize" /\ r.args.upload_id = upload_id)
                  => (r.status_code = 422 /\ r.data = Failure("csv_only"))
        /\ \A t \in Threads :
              (pc[t] \notin {"idle", "ingest_read", "ingest_lock", "ingest_locked",
                             "report_read"}
                  /\ local[t].upload_id = upload_id) => pc[t] = "normalize_open"
        /\ ArtifactPath(silver_storage_dir, upload_id) \notin DOMAIN disk
        /\ ArtifactPath(quarantine_storage_dir, upload_id) \notin DOMAIN disk
        /\ ArtifactPath(normalization_report_dir, upload_id) \notin DOMAIN disk
        /\ ~Has(Uploads[i], "normalization")

\* a table sent as copy.xlsx was stored by ingest_upload and then refused by
\* normalize_upload
C11_Witness ==
    \E i \in NotCsv : \E accepted \in Ingested, refused \in responses :
        /\ accepted.data.upload_id = Uploads[i].upload_id
        /\ ~accepted.data.cached
        /\ Uploads[i].stored_path \in DOMAIN disk
        /\ disk[Uploads[i].stored_path].csv.records # <<>>
        /\ refused.op = "normalize"
        /\ refused.args.upload_id = Uploads[i].upload_id
        /\ refused.status_code = 422

\* C12: the step of _update_manifest_with_normalization either finds the
\* record of the upload in the manifest, and then the manifest has as many
\* records as before, each other record as it was, and the record of the
\* upload as it was but for its normalization field, which is the summary of
\* the run; or it finds none, and then the call ends in NotFound and the
\* manifest is as it was.
C12_AttachNeverCreates ==
    [][ (pc[1] = "manifest_locked" /\ pc'[1] = "idle")
          => LET l == local[1]
                 before == Uploads
                 after == Uploads'
                 hits == {i \in 1..Len(before) : before[i].upload_id = l.upload_id}
             IN  IF hits # {}
                 THEN /\ Len(after) = Len(before)
                      /\ \A i \in 1..Len(before) :
                            IF i \in hits
                            THEN /\ DOMAIN after[i] = DOMAIN before[i] \cup {"normalization"}
                                 /\ \A k \in DOMAIN before[i] \ {"normalization"} :
                                       after[i][k] = before[i][k]
                                 /\ after[i].normalization.status = "completed"
                                 /\ after[i].normalization.processed_at = l.processed_at
                                 /\ after[i].normalization.report_path = l.report_path
                            ELSE after[i] = before[i]
                      /\ \E r \in responses' :
                            /\ r.op = "normalize" /\ r.status_code = 200
                            /\ r.data.processed_at = l.processed_at
                 ELSE /\ disk' = disk
                      /\ \E r \in responses' :
                            /\ r.op = "normalize" /\ r.args = NormalizeArgs(l)
                            /\ r.status_code = 404 ]_vars

\* after a run that set the summary among the records of other uploads, the
\* record was taken out during a second run: the second run wrote its report
\* and ended in NotFound, and the manifest holds the other records only
C12_Witness ==
    \E done \in Reports, failed \in responses :
        /\ failed.op = "normalize" /\ failed.status_code = 404
        /\ failed.data = Failure("upload_not_found")
        /\ pc[1] = "idle"
        /\ disk[ArtifactPath(normalization_report_dir, BatchUploadId)].processed_at
              > done.data.processed_at
        /\ Len(Uploads) = 2
        /\ \A i \in 1..Len(Uploads) : Uploads[i].upload_id # BatchUploadId

\* the answers of get_normalization_report
Fetched == {r \in responses : r.op = "report"}

\* the runs of normalize_upload on an upload that gave a report
RunsOf(upload_id) == {n \in Reports : n.args.upload_id = upload_id}

\* C13 as stated: get_normalization_report answers NotFound for an upload no
\* run has normalized, and otherwise gives a report with the upload_id and
\* the totals of the most recent successful run, the one whose summary the
\* record holds.
C13_ReportOfLastSuccess ==
    [][ \A r \in Fetched' \ Fetched :
          IF RunsOf(r.args.upload_id) = {}
          THEN r.status_code = 404
          ELSE /\ r.status_code = 200
               /\ r.data.upload_id = r.args.upload_id
               /\ \E n \in RunsOf(r.args.upload_id) :
                     /\ n.data.processed_at
                           = get_upload(disk, r.args.upload_id).normalization.processed_at
                     /\ r.data.totals = n.data.totals ]_vars

\* C13, amended: get_normalization_report answers NotFound for an upload no
\* run has normalized; otherwise it gives the report file as the last run to
\* reach the report write left it: a report of that upload with the row
\* counts of every successful run, and the very report the most recent
\* successful run returned whenever no other run has rewritten the file
\* since that run wrote it.
C13_ReportOfARun ==
    [][ \A r \in Fetched' \ Fetched :
          IF RunsOf(r.args.upload_id) = {}
          THEN r.status_code = 404
          ELSE /\ r.status_code = 200
               /\ r.data.upload_id = r.args.upload_id
               /\ \A n \in RunsOf(r.args.upload_id) :
                     /\ r.data.totals.rows_total = n.data.totals.rows_total
                     /\ r.data.totals.rows_valid = n.data.totals.rows_valid
                     /\ r.data.totals.rows_invalid = n.data.totals.rows_invalid
               /\ r.data.processed_at
                     = get_upload(disk, r.args.upload_id).normalization.processed_at
                   => r.data \in {n.data : n \in RunsOf(r.args.upload_id)} ]_vars

\* the upload had no report before its first run, and after two runs, one
\* after the other, the report fetched is the one the second returned
C13_Witness ==
    \E n1, n2 \in Reports, r \in Fetched :
        /\ n1.data.processed_at < n2.data.processed_at
        /\ n1.data.totals # n2.data.totals
        /\ r.status_code = 200
        /\ r.data = n2.data
        /\ get_upload(disk, BatchUploadId).normalization.processed_at
              = n2.data.processed_at

\* the lists of a sequence of lists, one after the other
RECURSIVE Flatten(_)
Flatten(lists) == IF lists = <<>> THEN <<>> ELSE Head(lists) \o Flatten(Tail(lists))

\* the warnings of all the data rows of a table, in row order
AllRowWarnings(csv) ==
    LET results == RowResults(csv) IN
    Flatten([i \in 1..Len(results) |-> results[i].warnings])

\* the errors of all the data rows of a table, in row order
AllRowErrors(csv) ==
    LET results == RowResults(csv) IN
    Flatten([i \in 1..Len(results) |-> results[i].errors])

\* the first n entries of a list, or all of it
FirstN(list, n) == SubSeq(list, 1, Min(n, Len(list)))

\* C14: for a run with effective limit k the warnings array of the report is
\* the first k warnings of the rows, in order, or all of them when they are
\* fewer: it never has more than k entries, a row's warnings go in only while
\* there is room, and the errors collected take no room from the warnings;
\* the errors array likewise is made of the first k errors whatever the
\* warnings are.
C14_WarningsCappedAlone ==
    \A r \in Reports :
        LET k == EffectiveErrorLimit(r.args.max_errors, normalization_max_errors)
            csv == StoredCsv(r.args.upload_id)
        IN  /\ Len(r.data.warnings) <= k
            /\ r.data.warnings = FirstN(AllRowWarnings(csv), k)
            /\ r.data.totals.warning_count = Len(r.data.warnings)
            /\ r.data.errors = FirstN(AllRowErrors(csv), k)

\* a report with its errors array full and its warnings array full too, the
\* last row with warnings having got only a part of its warnings in
C14_Witness ==
    \E r \in Reports :
        LET k == EffectiveErrorLimit(r.args.max_errors, normalization_max_errors)
            csv == StoredCsv(r.args.upload_id)
            results == RowResults(csv)
        IN  /\ Len(r.data.errors) = k
            /\ Len(r.data.warnings) = k
            /\ Len(AllRowWarnings(csv)) > k
            /\ results[1].errors # <<>>
            /\ \E i \in 1..Len(results) :
                  /\ Len(results[i].warnings) > 1
                  /\ r.data.warnings[k] = results[i].warnings[1]

\* the cell the row has under a name: the value of the last item of the row
\* whose key has the slug of the name, None when there is none
CellUnder(row, name) ==
    LET items == {i \in 1..Len(row) :
                     row[i][1] # None /\ _slugify(row[i][1].v) = _slugify(name)}
    IN  IF items = {} THEN None
        ELSE row[CHOOSE i \in items : \A j \in items : j <= i][2]

\* C15: _lookup_field gives the cell under the first of the candidates, the
\* canonical name and then its aliases in the order of the table, that is not
\* blank, and None when every candidate is blank or missing; so a canonical
\* column that is not blank wins wherever it stands among the columns, and a
\* blank one gives way to the first alias that is not blank.
C15_CanonicalFirst ==
    outcome.called =>
        LET row == DictReaderRow(given.fieldnames, given.cells)
            aliases == IF given.field \in DOMAIN CANONICAL_FIELD_ALIASES
                       THEN CANONICAL_FIELD_ALIASES[given.field] ELSE <<>>
            candidates == <<given.field>> \o aliases
            filled == {j \in 1..Len(candidates) :
                          ~_is_blank(CellUnder(row, candidates[j]))}
        IN  /\ ~_is_blank(CellUnder(row, given.field))
                  => outcome.result = CellUnder(row, given.field)
            /\ filled # {}
                  => \E j \in filled :
                        /\ \A i \in filled : j <= i
                        /\ outcome.result = CellUnder(row, candidates[j])
            /\ filled = {} => outcome.result = None

\* an alias column stands first and is filled, the canonical column written
\* "Shipment ID" stands after it with another value: the canonical one wins
C15_Witness ==
    /\ outcome.called
    /\ given.field = "shipment_id"
    /\ given.fieldnames = <<"tracking_number", "Shipment ID">>
    /\ given.cells = <<"A", "B">>
    /\ outcome.result = Str("B")

\* the column of TestHeader that a required field is read from when the
\* field is stored as the text of its cell or as what the cell parses to
ColumnOf ==
    [order_id |-> 2, origin_name |-> 3, destination_name |-> 4,
     origin_country |-> 5, destination_country |-> 6,
     planned_departure_ts |-> 7, planned_arrival_ts |-> 8,
     weight_kg |-> 10, volume_cbm |-> 11, cost_usd |-> 12]

\* the locals of _normalize_row as the sweep of lines 346-355 finds them
BeforeSweep(cells) ==
    RunStatements(ResolvedLocals(DictReaderRow(TestHeader, cells), 2),
                  SubSeq(Statements, 1, Len(Statements) - Len(REQUIRED_FIELDS)))

\* C16: a call that comes to its end has one missing_required error for each
\* of the 13 required fields whose value is None when the sweep starts, and
\* none for a required field with a value; a field read from one cell as text,
\* number or timestamp is None exactly when its cell is blank; and the row of
\* origin and destination only is refused with missing_required for every
\* required field but origin_name and destination_name.
C16_RequiredSweep ==
    (outcome.called /\ outcome.result.raised = None) =>
        LET res == outcome.result
            before == BeforeSweep(given)
            missing == WithCode(res.errors, "missing_required")
            MissingOf(field) == {i \in missing : res.errors[i].field = field}
        IN  /\ Len(REQUIRED_FIELDS) = 13
            /\ \A i \in missing :
                  /\ res.errors[i].field \in Range(REQUIRED_FIELDS)
                  /\ res.errors[i].row_number = 2
            /\ \A field \in Range(REQUIRED_FIELDS) :
                  Cardinality(MissingOf(field))
                      = IF before.normalized[field] = None THEN 1 ELSE 0
            /\ \A field \in DOMAIN ColumnOf :
                  (MissingOf(field) # {}) <=> (strip(given[ColumnOf[field]]) = "")
            /\ given = SparseCells
                  => /\ res.normalized = None
                     /\ {res.errors[i].field : i \in missing}
                           = Range(REQUIRED_FIELDS) \ {"origin_name", "destination_name"}
                     /\ Cardinality(missing) = 11

\* the row of origin and destination only was refused with eleven
\* missing_required errors
C16_Witness ==
    /\ outcome.called
    /\ given = SparseCells
    /\ outcome.result.normalized = None
    /\ Cardinality(WithCode(outcome.result.errors, "missing_required")) = 11

\* the values of the mode and priority enumerations
ModeValues == {"road", "rail", "sea", "air", "multimodal"}
PriorityValues == {"critical", "high", "medium", "low"}

\* C17: a row _normalize_row returns, which is a row of the valid set, has
\* its 13 required fields not None, a mode and a priority of the
\* enumerations, a weight, a volume and a cost that are numbers and not
\* negative, two timestamps that parse and stand in order, and flags that are
\* true, false or None.
C17_ValidRowsTyped ==
    (outcome.called /\ outcome.result.raised = None
                    /\ outcome.result.normalized # None) =>
        LET n == outcome.result.normalized
            departure == fromisoformat(n["planned_departure_ts"].v)
            arrival == fromisoformat(n["planned_arrival_ts"].v)
        IN  /\ DOMAIN n = Range(ALL_FIELDS)
            /\ \A field \in Range(REQUIRED_FIELDS) : n[field] # None
            /\ n["mode"].t = "str" /\ n["mode"].v \in ModeValues
            /\ n["priority"].t = "str" /\ n["priority"].v \in PriorityValues
            /\ \A field \in {"weight_kg", "volume_cbm", "cost_usd"} :
                  /\ n[field].t = "float"
                  /\ n[field].kind # "nan"
                  /\ ~FloatNegative(n[field])
            /\ n["planned_departure_ts"].t = "str" /\ n["planned_arrival_ts"].t = "str"
            /\ departure # ValueError /\ arrival # ValueError
            /\ departure.tzinfo # None /\ arrival.tzinfo # None
            /\ ~datetime_gt(departure, arrival)
            /\ \A field \in {"hazmat_flag", "temperature_control_flag"} :
                  n[field] = None \/ n[field].t = "bool"

\* the column of TestHeader with the hazmat flag
HazmatColumn == CHOOSE i \in 1..Len(TestHeader) : TestHeader[i] = "hazmat"

\* C18: when the cell of a flag is not blank and is no word for true or
\* false, a call that comes to its end has one invalid_bool warning for the
\* flag, carrying the text, and no error for it: its errors are those of the
\* same row with the flag left blank, so the row is returned, with None for
\* the flag, when it has no other problem; a blank or readable flag gives no
\* such warning.
C18_BadFlagOnlyWarns ==
    (outcome.called /\ outcome.result.raised = None) =>
        LET res == outcome.result
            cell == given[HazmatColumn]
            unreadable == strip(cell) # "" /\ _to_bool(Str(cell)) = None
            blanked == _normalize_row(
                           DictReaderRow(TestHeader,
                                         [given EXCEPT ![HazmatColumn] = ""]), 2)
            warned == WithCode(res.warnings, "invalid_bool")
        IN  /\ \A i \in 1..Len(res.errors) :
                  /\ res.errors[i].code # "invalid_bool"
                  /\ res.errors[i].field
                        \notin {"hazmat_flag", "temperature_control_flag"}
            /\ res.errors = blanked.errors
            /\ IF unreadable
               THEN /\ Cardinality(warned) = 1
                    /\ \A i \in warned :
                          /\ res.warnings[i].field = "hazmat_flag"
                          /\ res.warnings[i].value = Str(strip(cell))
                    /\ res.normalized # None => res.normalized["hazmat_flag"] = None
               ELSE warned = {}

\* the test row with the flag "maybe": returned with the flag None and one
\* invalid_bool warning
C18_Witness ==
    /\ outcome.called
    /\ given = [ValidCells EXCEPT ![HazmatColumn] = "maybe"]
    /\ outcome.result.normalized # None
    /\ outcome.result.normalized["hazmat_flag"] = None
    /\ outcome.result.errors = <<>>
    /\ Cardinality(WithCode(outcome.result.warnings, "invalid_bool")) = 1

\* the row numbers along a list of errors or warnings never go down
InRowOrder(items) ==
    \A i, j \in 1..Len(items) : i <= j => items[i].row_number <= items[j].row_number

\* list is the beginning of whole
IsPrefix(list, whole) ==
    Len(list) <= Len(whole) /\ list = SubSeq(whole, 1, Len(list))

\* C19: the loop takes the data rows of the file one by one in their order,
\* the first as row 2 and each next one with the next number, and classifies
\* each once; the errors array of the report is a beginning of the rows'
\* error lists put one after the other in row order, each entry with the
\* number of its row, and the warnings array is such a beginning of the
\* rows' warning lists.
C19_RowsInFileOrder ==
    /\ pc[1] = "normalize_rows"
          => LET l == local[1]
                 records == DataRecords(StoredCsv(l.upload_id))
                 done == Len(records) - Len(l.records)
             IN  /\ done >= 0
                 /\ l.records = SubSeq(records, done + 1, Len(records))
                 /\ l.row_number = done + 2
                 /\ Len(l.loc.valid_rows) + Len(l.loc.invalid_rows) = done
                 /\ \A i \in 1..Len(l.loc.invalid_rows) :
                       /\ l.loc.invalid_rows[i].row_number \in 2..(done + 1)
                       /\ l.loc.invalid_rows[i].raw
                             = DictReaderRow(l.fieldnames,
                                             records[l.loc.invalid_rows[i].row_number - 1])
    /\ \A r \in Reports :
          LET csv == StoredCsv(r.args.upload_id) IN
          /\ r.data.totals.rows_total = Len(DataRecords(csv))
          /\ IsPrefix(r.data.errors, AllRowErrors(csv))
          /\ IsPrefix(r.data.warnings, AllRowWarnings(csv))
          /\ InRowOrder(r.data.errors)
          /\ InRowOrder(r.data.warnings)
          /\ \A i \in 1..Len(r.data.errors) :
                r.data.errors[i].row_number \in 2..(Len(DataRecords(csv)) + 1)

\* a report of a file of three rows with errors of two rows, the earlier row
\* first, and a warning of the row between them
C19_Witness ==
    \E r \in Reports :
        /\ r.data.totals.rows_total = 3
        /\ \E i, j \in 1..Len(r.data.errors) :
              /\ i < j
              /\ r.data.errors[i].row_number = 2
              /\ r.data.errors[j].row_number = 4
        /\ \E i \in 1..Len(r.data.warnings) : r.data.warnings[i].row_number = 3

\* the normalized forms of the rows of a table that _normalize_row accepts, in
\* the order of the rows in the file
RECURSIVE AcceptedOf(_)
AcceptedOf(results) ==
    IF results = <<>> THEN <<>>
    ELSE IF Head(results).errors = <<>>
         THEN <<Head(results).normalized>> \o AcceptedOf(Tail(results))
         ELSE AcceptedOf(Tail(results))

\* the rows of a table that _normalize_row rejects, as the reader hands them over
RejectedRaw(csv) ==
    LET records == DataRecords(csv)
        results == RowResults(csv)
    IN  {DictReaderRow(csv.fieldnames, records[i]) :
            i \in {j \in 1..Len(records) : results[j].errors # <<>>}}

\* C20: the sample_normalized_rows of a report are the first min(5, rows_valid)
\* valid rows of the file in file order, the silver artifact the report names
\* holds every valid row of the file in file order, and no row of the sample
\* is a row the file's quarantine artifact holds.
C20_SampleIsFirstFive ==
    \A r \in Reports :
        LET csv == StoredCsv(r.data.upload_id)
            accepted == AcceptedOf(RowResults(csv))
            sample == r.data.sample_normalized_rows
            silver == disk[r.data.artifacts.silver_path]
            quarantine == disk[r.data.artifacts.quarantine_path]
        IN  /\ r.data.totals.rows_valid = Len(accepted)
            /\ Len(sample) = Min(5, r.data.totals.rows_valid)
            /\ sample = SubSeq(accepted, 1, Len(sample))
            /\ silver.rows = accepted
            /\ \A i \in 1..Len(sample) :
                  /\ sample[i] # None
                  /\ \E j \in 1..Len(RowResults(csv)) :
                        /\ RowResults(csv)[j].errors = <<>>
                        /\ RowResults(csv)[j].normalized = sample[i]
            /\ {quarantine.rows[i].raw : i \in 1..Len(quarantine.rows)} = RejectedRaw(csv)

\* a report of a file of seven rows that starts with a rejected row and goes
\* on with six accepted rows of two kinds: the sample has five rows, the
\* silver artifact six
C20_Witness ==
    \E r \in Reports :
        LET csv == StoredCsv(r.data.upload_id)
            sample == r.data.sample_normalized_rows
        IN  /\ r.data.totals.rows_valid = 6
            /\ r.data.totals.rows_invalid = 1
            /\ DataRecords(csv)[1] = InvalidCells
            /\ Len(sample) = 5
            /\ sample[1] # sample[2]
            /\ Len(disk[r.data.artifacts.silver_path].rows) = 6

\* the responses of the calls of ingest_upload that were refused
RejectedIngests(answers) == {r \in answers : r.op = "ingest" /\ r.status_code # 200}

\* C21: a call of ingest_upload that is refused (extension not allowed, empty
\* content, content over upload_max_bytes) stores no file and leaves the
\* manifest as it was: the step that refuses the call changes nothing in the
\* storage directory, and neither does any step the call took before it (the
\* extension gate and the read of the body), so what is listed changes over
\* the call only by what other calls commit meanwhile; a call whose file name or content
\* is of one of the three kinds is never answered with a record.
C21_RejectedIngestStoresNothing ==
    [][/\ (RejectedIngests(responses') # RejectedIngests(responses))
            => /\ disk' = disk
               /\ _read_manifest(disk').uploads = _read_manifest(disk).uploads
       /\ \A t \in Threads :
             (pc'[t] # pc[t] /\ (pc[t] = "ingest_read" \/ pc'[t] = "ingest_read"))
                 => /\ disk' = disk
                    /\ next_id' = next_id
       /\ \A r \in responses' :
             (/\ r.op = "ingest"
              /\ \/ lower(suffix(r.args.filename)) \notin _allowed_extensions
                 \/ r.args.digest \in {EmptyContent.digest, HugeContent.digest})
                 => r \in RejectedIngests(responses')]_vars

\* an upload is listed and two calls have been refused, one at the extension
\* gate and one at a size gate
C21_Witness ==
    /\ Len(_read_manifest(disk).uploads) = 1
    /\ \E r1, r2 \in RejectedIngests(responses) :
          /\ r1.data = Failure("unsupported_extension")
          /\ r2.data \in {Failure("empty"), Failure("too_large")}

\* the column of TestHeader each required field is read from
SourceColumn ==
    [field \in Range(REQUIRED_FIELDS) |->
        CASE field = "shipment_id" -> 1
          [] field = "mode" -> 9
          [] field = "priority" -> 13
          [] OTHER -> ColumnOf[field]]

\* the fields a list of errors reports with a code
FieldsWithCode(errors, code) == {errors[i].field : i \in WithCode(errors, code)}

\* C22 as stated: a call reports missing_required for a required field only
\* when the cell of the field is blank in the row; a field whose cell holds
\* text that does not parse has its invalid_* error and no missing_required.
C22_MissingOnlyWhenBlank ==
    outcome.called =>
        \A field \in FieldsWithCode(outcome.result.errors, "missing_required") :
            strip(given[SourceColumn[field]]) = ""

\* C22 as the code has it: a call reports missing_required for a required
\* field only when the cell of the field is blank, or when the field is mode or
\* priority and its cell holds text outside the table, which the call reports
\* as invalid_mode or invalid_priority too; a number or a timestamp that does
\* not parse is reported as invalid_number or invalid_datetime and never as
\* missing_required; and a call that comes to its end reports every mode or
\* priority outside the table under both codes.
C22_MissingWhenBlankOrOffTable ==
    outcome.called =>
        LET errors == outcome.result.errors
            missing == FieldsWithCode(errors, "missing_required")
            off_table == FieldsWithCode(errors, "invalid_mode")
                             \cup FieldsWithCode(errors, "invalid_priority")
            unparsed == FieldsWithCode(errors, "invalid_number")
                            \cup FieldsWithCode(errors, "invalid_datetime")
        IN  /\ FieldsWithCode(errors, "invalid_mode") \subseteq {"mode"}
            /\ FieldsWithCode(errors, "invalid_priority") \subseteq {"priority"}
            /\ \A field \in missing :
                  \/ strip(given[SourceColumn[field]]) = ""
                  \/ field \in off_table
            /\ \A field \in off_table \cup unparsed :
                  strip(given[SourceColumn[field]]) # ""
            /\ unparsed \cap missing = {}
            /\ outcome.result.raised = None => off_table \subseteq missing

\* a row with a mode outside the table and a weight that is no number: the
\* mode is reported under both codes, the weight as invalid_number only
C22_Witness ==
    /\ outcome.called
    /\ outcome.result.raised = None
    /\ "mode" \in FieldsWithCode(outcome.result.errors, "invalid_mode")
    /\ "mode" \in FieldsWithCode(outcome.result.errors, "missing_required")
    /\ "weight_kg" \in FieldsWithCode(outcome.result.errors, "invalid_number")
    /\ "weight_kg" \notin FieldsWithCode(outcome.result.errors, "missing_required")

\* C23: in every report totals.error_count is the length of the errors array,
\* which is the smaller of k and the number of errors of all the rows;
\* totals.warning_count is the length of the warnings array;
\* totals.error_limit_reached is true exactly when the rows have more errors
\* than k, so that at least one was dropped, however many warnings were dropped.
C23_CountsMatchArrays ==
    \A r \in Reports :
        LET k == EffectiveErrorLimit(r.args.max_errors, normalization_max_errors)
            csv == StoredCsv(r.args.upload_id)
        IN  /\ r.data.totals.error_count = Len(r.data.errors)
            /\ Len(r.data.errors) = Min(TrueErrorCount(csv), k)
            /\ r.data.totals.warning_count = Len(r.data.warnings)
            /\ r.data.totals.error_limit_reached <=> (TrueErrorCount(csv) > k)

\* a report whose errors array is full with no error dropped and whose
\* warnings array is full with a warning dropped: the flag is not set
C23_Witness ==
    \E r \in Reports :
        LET k == EffectiveErrorLimit(r.args.max_errors, normalization_max_errors)
            csv == StoredCsv(r.args.upload_id)
        IN  /\ TrueErrorCount(csv) = k
            /\ r.data.totals.error_count = k
            /\ Len(AllRowWarnings(csv)) > k
            /\ r.data.totals.warning_count = k
            /\ ~r.data.totals.error_limit_reached

\* the record the manifest has for an upload_id, None when it has none
ListedRecord(upload_id) == get_upload(disk, upload_id)

\* C24: when runs of normalize_upload on two different uploads and calls of
\* ingest_upload interleave in one process, no update of the manifest is lost:
\* the manifest keeps the two records it started with, in their places, and
\* has, from the moment a call is answered, the record every answered
\* ingest_upload names and, on the record of every upload a run was answered
\* for, the summary of that run; the manifest has one record more for each
\* file stored, and it is written only by the thread that holds the lock.
C24_NoLostManifestUpdate ==
    LET uploads == _read_manifest(disk).uploads
        stored == {r \in responses : r.op = "ingest" /\ r.status_code = 200
                                        /\ ~r.data.cached}
    IN  /\ Len(uploads) = 2 + Cardinality(stored)
        /\ uploads[1].upload_id = BatchUploadId
        /\ uploads[2].upload_id = SecondUploadId
        /\ \A r \in responses :
              (r.op = "ingest" /\ r.status_code = 200)
                  => LET record == ListedRecord(r.data.upload_id) IN
                     /\ Truthy(record)
                     /\ record.file_hash = r.data.file_hash
                     /\ record.stored_path \in DOMAIN disk
        /\ \A r \in Reports :
              LET record == ListedRecord(r.data.upload_id) IN
              /\ Truthy(record)
              /\ "normalization" \in DOMAIN record
              /\ record.normalization.processed_at = r.data.processed_at
              /\ record.normalization.rows_total = r.data.totals.rows_total
              /\ record.normalization.silver_path = r.data.artifacts.silver_path
        /\ \A t \in Threads :
              pc[t] \in {"ingest_locked", "manifest_locked"}
                  => /\ lock = t
                     /\ local[t].manifest = _read_manifest(disk)

\* a run on one upload has been answered and its summary is on the record;
\* a run on the other upload waits for the lock with its summary, while a call
\* of ingest_upload holds the lock with the manifest it read
C24_Witness ==
    /\ \E r \in Reports :
          ListedRecord(r.data.upload_id).normalization.processed_at = r.data.processed_at
    /\ \E t, u \in Threads :
          /\ pc[t] = "manifest_lock"
          /\ NotAsked(local[t].upload_id) = FALSE
          /\ \A r \in Reports : r.data.upload_id # local[t].upload_id
          /\ pc[u] = "ingest_locked"
          /\ lock = u
          /\ ~Truthy(ExistingUpload(local[u].manifest.uploads, local[u].file_hash))

\* what a run that ends with the report left behind agrees with the report
OutputsAgree(report, d, csv) ==
    LET totals == report.totals
        silver == d[report.artifacts.silver_path]
        quarantine == d[report.artifacts.quarantine_path]
        summary == get_upload(d, report.upload_id).normalization
    IN  /\ totals.rows_total = totals.rows_valid + totals.rows_invalid
        /\ totals.rows_total = Len(DataRecords(csv))
        /\ totals.rows_valid = Len(silver.rows)
        /\ totals.rows_invalid = Len(quarantine.rows)
        /\ summary.rows_total = totals.rows_total
        /\ summary.rows_valid = totals.rows_valid
        /\ summary.rows_invalid = totals.rows_invalid
        /\ silver.processed_at = report.processed_at
        /\ quarantine.processed_at = report.processed_at
        /\ summary.processed_at = report.processed_at
        /\ d[summary.report_path] = report
        /\ summary.silver_path = report.artifacts.silver_path
        /\ summary.quarantine_path = report.artifacts.quarantine_path

\* C25: when a run of normalize_upload that no other run on the upload
\* overlaps is answered with its report, its outputs agree: rows_total is
\* rows_valid + rows_invalid and the number of data rows of the file,
\* rows_valid the number of rows of the silver artifact, rows_invalid the
\* number of records of the quarantine artifact, the summary on the record
\* has the three counts of the report, and silver, quarantine, report file
\* and summary carry the processed_at of the report.
C25_OutputsAgree ==
    [][\A r \in Reports' \ Reports :
          OutputsAgree(r.data, disk', StoredCsv(r.data.upload_id))]_vars

\* the upload has been normalized twice, one run after the other, and what is
\* on disk and on the record is what the later run left
C25_Witness ==
    \E r1, r2 \in Reports :
        /\ r1.data.processed_at < r2.data.processed_at
        /\ r2.data.totals.rows_valid = 1
        /\ r2.data.totals.rows_invalid = 1
        /\ OutputsAgree(r2.data, disk, StoredCsv(r2.data.upload_id))
        /\ ~OutputsAgree(r1.data, disk, StoredCsv(r1.data.upload_id))

====
